---- MODULE Spec2Model ----
(***************************************************************************)
(* Model of the acquisition core of junzi-tts (scrape_ctp.py):             *)
(*   - CTEXTParser, the streaming extractor of (zh, en) passage pairs;     *)
(*   - fetch_chapter, the retrying fetch over one global session;          *)
(*   - main, the per-work assembly loop with resume, interrupt and save;   *)
(* of the sentence aligner (split_mengzi.py) and of the auditor            *)
(* (validate_translations.py).                                             *)
(* Text is modelled as sequences of one-character strings.                 *)
(***************************************************************************)
EXTENDS Integers, Sequences, FiniteSets, TLC

(* ------------------------------ bounds --------------------------------- *)
\* events fed to one parser instance in the extractor specification
MaxEvents == 9
\* pages of the multi-page work taken from the catalog
NPages == 2
\* process runs of the acquisition entry point
MaxRuns == 2
\* session resets the environment can provoke in one process run
MaxResets == 1
\* identity profiles of BROWSER_PROFILES that random.choice can draw
NProfiles == 1
\* sentences on one side of an align_passages call
MaxSentences == 3
\* the largest start_ref a first align_passages call is given
MaxStart == 2
\* align_passages calls threaded one after the other
MaxCalls == 2
\* coarse passages in the chapter file process_chapter reads
MaxCoarse == 2
\* chapters in a document handed to the auditor
MaxChapters == 3
\* passages in a document handed to the auditor
MaxPassages == 4
\* positional arguments on the command line of the acquisition entry point
MaxArgs == 2
MaxText == 4

(* --------------------------- program constants ------------------------- *)
\* fetch_chapter(url, retries=3)
Retries == 3

(* ------------------------------ text ----------------------------------- *)
\* Python's None where a text or a document may stand: the empty option;
\* Some(x) is a value that is present
None == <<>>
Some(x) == <<x>>
Get(opt) == opt[1]

Space == " "

\* str.strip(): drop leading and trailing whitespace
RECURSIVE LStrip(_)
LStrip(s) ==
    IF s = <<>> THEN <<>>
    ELSE IF Head(s) = Space THEN LStrip(Tail(s)) ELSE s

RECURSIVE RStrip(_)
RStrip(s) ==
    IF s = <<>> THEN <<>>
    ELSE IF s[Len(s)] = Space THEN RStrip(SubSeq(s, 1, Len(s) - 1)) ELSE s

Strip(s) == RStrip(LStrip(s))

Digits == <<"0", "1", "2", "3", "4", "5", "6", "7", "8", "9">>

\* str(n) for a natural number
RECURSIVE Str(_)
Str(n) ==
    IF n < 10 THEN <<Digits[n + 1]>>
    ELSE Str(n \div 10) \o <<Digits[(n % 10) + 1]>>

DigitVal(c) == (CHOOSE k \in 1..10 : Digits[k] = c) - 1

\* int(s) for a string of decimal digits
RECURSIVE ParseInt(_)
ParseInt(s) ==
    IF s = <<>> THEN 0
    ELSE ParseInt(SubSeq(s, 1, Len(s) - 1)) * 10 + DigitVal(s[Len(s)])

(* --------------------------- CTEXTParser ------------------------------- *)
StartTag(tag, cls) == [type |-> "start", tag |-> tag, cls |-> cls, data |-> <<>>]
EndTag(tag) == [type |-> "end", tag |-> tag, cls |-> "", data |-> <<>>]
Data(d) == [type |-> "data", tag |-> "", cls |-> "", data |-> d]

\* CTEXTParser.__init__
NewParser ==
    [passages |-> <<>>, current_zh |-> <<>>, current_en |-> <<>>,
     in_ctext_td |-> FALSE, in_etext_td |-> FALSE, pending_zh |-> None]

handle_starttag(p, tag, cls) ==
    IF tag = "td"
    THEN IF cls = "ctext"
         THEN [p EXCEPT !.in_ctext_td = TRUE, !.current_zh = <<>>]
         ELSE IF cls = "etext"
              THEN [p EXCEPT !.in_etext_td = TRUE, !.current_en = <<>>]
              ELSE p
    ELSE p

\* handle_endtag without the test of the trimmed target text
handle_endtag_any_en(p, tag) ==
    IF tag = "td"
    THEN IF p.in_ctext_td
         THEN LET zh == Strip(p.current_zh)
              IN  IF zh # <<>>
                  THEN [p EXCEPT !.in_ctext_td = FALSE, !.pending_zh = Some(zh)]
                  ELSE [p EXCEPT !.in_ctext_td = FALSE]
         ELSE IF p.in_etext_td
              THEN LET en == Strip(p.current_en)
                   IN  IF p.pending_zh # None
                       THEN [p EXCEPT !.in_etext_td = FALSE,
                                      !.passages = Append(@, [zh |-> Get(p.pending_zh), en |-> en]),
                                      !.pending_zh = None]
                       ELSE [p EXCEPT !.in_etext_td = FALSE]
              ELSE p
    ELSE p

\* handle_endtag keeping the first unconsumed source text
handle_endtag_keeps_first(p, tag) ==
    IF tag = "td"
    THEN IF p.in_ctext_td
         THEN LET zh == Strip(p.current_zh)
              IN  IF zh # <<>> /\ p.pending_zh = None
                  THEN [p EXCEPT !.in_ctext_td = FALSE, !.pending_zh = Some(zh)]
                  ELSE [p EXCEPT !.in_ctext_td = FALSE]
         ELSE IF p.in_etext_td
              THEN LET en == Strip(p.current_en)
                   IN  IF p.pending_zh # None /\ en # <<>>
                       THEN [p EXCEPT !.in_etext_td = FALSE,
                                      !.passages = Append(@, [zh |-> Get(p.pending_zh), en |-> en]),
                                      !.pending_zh = None]
                       ELSE [p EXCEPT !.in_etext_td = FALSE]
              ELSE p
    ELSE p

\* handle_endtag emitting a pair without clearing the pending source
handle_endtag_keeps_pending(p, tag) ==
    IF tag = "td"
    THEN IF p.in_ctext_td
         THEN LET zh == Strip(p.current_zh)
              IN  IF zh # <<>>
                  THEN [p EXCEPT !.in_ctext_td = FALSE, !.pending_zh = Some(zh)]
                  ELSE [p EXCEPT !.in_ctext_td = FALSE]
         ELSE IF p.in_etext_td
              THEN LET en == Strip(p.current_en)
                   IN  IF p.pending_zh # None /\ en # <<>>
                       THEN [p EXCEPT !.in_etext_td = FALSE,
                                      !.passages = Append(@, [zh |-> Get(p.pending_zh), en |-> en])]
                       ELSE [p EXCEPT !.in_etext_td = FALSE]
              ELSE p
    ELSE p

handle_endtag(p, tag) ==
    IF tag = "td"
    THEN IF p.in_ctext_td
         THEN LET zh == Strip(p.current_zh)
              IN  IF zh # <<>>
                  THEN [p EXCEPT !.in_ctext_td = FALSE, !.pending_zh = Some(zh)]
                  ELSE [p EXCEPT !.in_ctext_td = FALSE]
         ELSE IF p.in_etext_td
              THEN LET en == Strip(p.current_en)
                   IN  IF p.pending_zh # None /\ en # <<>>
                       THEN [p EXCEPT !.in_etext_td = FALSE,
                                      !.passages = Append(@, [zh |-> Get(p.pending_zh), en |-> en]),
                                      !.pending_zh = None]
                       ELSE [p EXCEPT !.in_etext_td = FALSE]
              ELSE p
    ELSE p

handle_data(p, d) ==
    IF p.in_ctext_td
    THEN [p EXCEPT !.current_zh = @ \o d]
    ELSE IF p.in_etext_td
         THEN [p EXCEPT !.current_en = @ \o d]
         ELSE p

\* dispatch of one scanner event to its handler
ParserStep(p, ev) ==
    IF ev.type = "start" THEN handle_starttag(p, ev.tag, ev.cls)
    ELSE IF ev.type = "end" THEN handle_endtag(p, ev.tag)
    ELSE handle_data(p, ev.data)

\* parser.feed(text) followed by reading parser.passages
RECURSIVE FeedFrom(_, _)
FeedFrom(p, evs) ==
    IF evs = <<>> THEN p ELSE FeedFrom(ParserStep(p, Head(evs)), Tail(evs))

Feed(evs) == FeedFrom(NewParser, evs).passages

(* ------------------------------ catalog -------------------------------- *)
\* TEXTS["analects"]["chapters"], in declared order
AnalectsChapters ==
    << <<"x","u","e","-","e","r">>,
       <<"w","e","i","-","z","h","e","n","g">>,
       <<"b","a","-","y","i">>,
       <<"l","i","-","r","e","n">> >>

\* the catalog, cut to one multi-page work of NPages pages and one single-page work
TEXTS ==
    [analects |-> [titleEn |-> <<"A","n","a","l","e","c","t","s">>,
                   chapters |-> SubSeq(AnalectsChapters, 1, NPages)],
     daxue    |-> [titleEn |-> <<"G","r","e","a","t"," ","L","e","a","r","n","i","n","g">>,
                   chapters |-> None]]

TextIds == DOMAIN TEXTS

\* list(TEXTS.keys()): the catalog in declared order
CatalogKeys == <<"analects", "daxue">>

\* a in TEXTS
InCatalog(a) == a \in TextIds

\* an id that is not in the catalog
UnknownId == "bogus"

\* command lines of catalog ids: the positional ids in the order given
Selections ==
    { <<"analects">>, <<"daxue">>, <<"analects", "daxue">>, <<"daxue", "analects">> }

\* command lines of up to MaxArgs positional arguments, known ids or not
CommandLines == UNION { [1..n -> TextIds \cup {UnknownId}] : n \in 0..MaxArgs }

\* main, lines 679-686: the ids of the command line that are in the catalog,
\* or the whole catalog when no id is given
Requested(args) ==
    IF args = <<>> THEN CatalogKeys ELSE SelectSeq(args, InCatalog)

LowerCase == <<"a","b","c","d","e","f","g","h","i","j","k","l","m",
               "n","o","p","q","r","s","t","u","v","w","x","y","z">>
UpperCase == <<"A","B","C","D","E","F","G","H","I","J","K","L","M",
               "N","O","P","Q","R","S","T","U","V","W","X","Y","Z">>

IsLetter(c) == \E k \in 1..26 : c = LowerCase[k] \/ c = UpperCase[k]
Upper(c) == IF \E k \in 1..26 : c = LowerCase[k]
            THEN UpperCase[CHOOSE k \in 1..26 : c = LowerCase[k]] ELSE c
Lower(c) == IF \E k \in 1..26 : c = UpperCase[k]
            THEN LowerCase[CHOOSE k \in 1..26 : c = UpperCase[k]] ELSE c

\* slug.replace("-", " ").title()
format_chapter_title(slug) ==
    LET spaced == [k \in 1..Len(slug) |-> IF slug[k] = "-" THEN Space ELSE slug[k]]
    IN  [k \in 1..Len(spaced) |->
            IF k = 1 \/ ~IsLetter(spaced[k - 1])
            THEN Upper(spaced[k]) ELSE Lower(spaced[k])]

(* --------------------------- pages ------------------------------ *)
\* markup of a page without any target cell
PageNoPairs ==
    << StartTag("td", "ctext"), Data(<<"z">>), EndTag("td") >>

\* markup of a page with one source/target pair
PageOnePair ==
    << StartTag("td", "ctext"), Data(<<"z">>), EndTag("td"),
       StartTag("td", "etext"), Data(<<" ", "e">>), EndTag("td") >>

\* markup of a page with two pairs
PageTwoPairs ==
    << StartTag("td", "ctext"), Data(<<"z">>), EndTag("td"),
       StartTag("td", "etext"), Data(<<"e">>), EndTag("td"),
       StartTag("td", "ctext"), Data(<<"y", " ">>), EndTag("td"),
       StartTag("td", "etext"), Data(<<"f">>), EndTag("td") >>

Bodies == { PageNoPairs, PageOnePair, PageTwoPairs }

\* what the parser makes of each page, parsed once
PagePassages == { <<body, Feed(body)>> : body \in Bodies }
ParsedPage(body) == (CHOOSE page \in PagePassages : page[1] = body)[2]

(* ------------------------------ documents ------------------------------ *)
\* a path of OUTPUT_DIR: absent, a JSON document, or the remains of a failed write
NoFile == [state |-> "absent"]
Truncated == [state |-> "truncated"]
DocFile(d) == [state |-> "document", doc |-> d]

IsDoc(f) == f.state = "document"

\* main: output_path.exists() and json.load; a file that does not parse is
\* reported and treated as no document
LoadExisting(f) == IF IsDoc(f) THEN Some(f.doc) ELSE None

\* the structure main starts a work with when there is no usable document
FreshOutput(id) == [id |-> id, chapters |-> <<>>]

HasSlug(ch) == "slug" \in DOMAIN ch

\* the keys taken from the chapter numbers alone
ExistingSlugs_numbers(existing) ==
    IF existing = None THEN {}
    ELSE { Get(existing).chapters[k].number : k \in 1..Len(Get(existing).chapters) }

\* main: the keys of the chapters already in the loaded document
ExistingSlugs(existing) ==
    IF existing = None THEN {}
    ELSE { IF HasSlug(Get(existing).chapters[k])
           THEN Get(existing).chapters[k].slug
           ELSE Get(existing).chapters[k].number : k \in 1..Len(Get(existing).chapters) }

\* a fresh structure whatever was loaded
StartOutput_fresh(existing, id) == FreshOutput(id)

\* main, lines 741-750: start with the existing data or a fresh structure
StartOutput(existing, id) ==
    IF existing # None THEN Get(existing) ELSE FreshOutput(id)

\* main: the (i, slug) of the catalog pages not yet in the document
RECURSIVE MissingFrom(_, _, _)
MissingFrom(chapters, i, existing_slugs) ==
    IF i > Len(chapters) THEN <<>>
    ELSE (IF chapters[i] \notin existing_slugs THEN << <<i, chapters[i]>> >> ELSE <<>>)
         \o MissingFrom(chapters, i + 1, existing_slugs)

\* a single-page chapter with the refs of a multi-page work
SingleChapter_page_refs(titleEn, ps) ==
    [number |-> <<"1">>, title |-> titleEn,
     passages |-> [j \in 1..Len(ps) |->
                     [ref |-> <<"1", ":">> \o Str(j), zh |-> ps[j].zh, en |-> ps[j].en]]]

\* the chapter main appends for a single-page work
SingleChapter(titleEn, ps) ==
    [number |-> <<"1">>, title |-> titleEn,
     passages |-> [j \in 1..Len(ps) |-> [ref |-> Str(j), zh |-> ps[j].zh, en |-> ps[j].en]]]

\* the chapter main appends for page i of a multi-page work
PageChapter(i, chapter_slug, ps) ==
    [number |-> Str(i), title |-> format_chapter_title(chapter_slug), slug |-> chapter_slug,
     passages |-> [j \in 1..Len(ps) |->
                     [ref |-> Str(i) \o <<":">> \o Str(j), zh |-> ps[j].zh, en |-> ps[j].en]]]

SortKey(ch) == ParseInt(ch.number)

\* put ch behind every chapter whose key is not larger (list.sort is stable)
RECURSIVE InsertSorted(_, _)
InsertSorted(ch, sorted) ==
    IF sorted = <<>> THEN <<ch>>
    ELSE IF SortKey(Head(sorted)) <= SortKey(ch)
         THEN <<Head(sorted)>> \o InsertSorted(ch, Tail(sorted))
         ELSE <<ch>> \o sorted

\* the chapters left in the order of their appends
SortChapters_unsorted(chs) == chs

\* output["chapters"].sort(key=lambda ch: int(ch.get("number", 0)))
RECURSIVE SortChapters(_)
SortChapters(chs) ==
    IF chs = <<>> THEN <<>>
    ELSE InsertSorted(chs[Len(chs)], SortChapters(SubSeq(chs, 1, Len(chs) - 1)))

\* save_output: open(path, "w") truncates the file, then json.dump writes it.
\* io = "ok": the document is written; "open_fails": open raises and the file
\* is as before; "write_fails": the write raises after the truncation.
IoOutcomes == {"ok", "open_fails", "write_fails"}

save_output(file, out, io) ==
    IF io = "ok" THEN DocFile(out)
    ELSE IF io = "open_fails" THEN file
    ELSE Truncated

(* --------------------------- sentence aligner -------------------------- *)
\* characters outside ASCII are written by their code point
ZhStop == "U+3002"
ZhExclamation == "U+FF01"
ZhQuestion == "U+FF1F"
ZhCloseQuote == "U+300D"
ZhCloseDoubleQuote == "U+300F"

\* sep.join(parts)
RECURSIVE Join(_, _)
Join(sep, parts) ==
    IF parts = <<>> THEN <<>>
    ELSE IF Len(parts) = 1 THEN parts[1]
    ELSE parts[1] \o sep \o Join(sep, Tail(parts))

\* f"{chapter_num}:{start_ref}"
Ref(chapter_num, index) == Str(chapter_num) \o <<":">> \o Str(index)

Passage(ref, zh, en) == [ref |-> ref, zh |-> zh, en |-> en]

\* what align_passages returns: (passages, next start_ref)
Aligned(ps, next) == [passages |-> ps, next |-> next]

\* the 1:1 pairs that number every pair with the same index
PairsInOrder_same_ref(zh_sentences, en_sentences, chapter_num, start_ref, count) ==
    [i \in 1..count |->
        Passage(Ref(chapter_num, start_ref), zh_sentences[i], en_sentences[i])]

\* align_passages, the loops of lines 105-110, 117-122 and 133-138: the first
\* count sentences paired 1:1 in order (Python's i is i - 1 here)
PairsInOrder(zh_sentences, en_sentences, chapter_num, start_ref, count) ==
    [i \in 1..count |->
        Passage(Ref(chapter_num, start_ref + (i - 1)), zh_sentences[i], en_sentences[i])]

\* the case of equal counts with the target sentences taken from the end
AlignEqual_reversed(zh_sentences, en_sentences, chapter_num, start_ref) ==
    Aligned([i \in 1..Len(zh_sentences) |->
                Passage(Ref(chapter_num, start_ref + (i - 1)), zh_sentences[i],
                        en_sentences[Len(en_sentences) + 1 - i])],
            start_ref + Len(zh_sentences))

\* align_passages, lines 104-111: equal counts
AlignEqual(zh_sentences, en_sentences, chapter_num, start_ref) ==
    Aligned(PairsInOrder(zh_sentences, en_sentences, chapter_num, start_ref,
                         Len(zh_sentences)),
            start_ref + Len(zh_sentences))

\* the merge that drops the sentence before the last of the longer side
AlignOffByOne_drops(zh_sentences, en_sentences, chapter_num, start_ref) ==
    LET zh_count == Len(zh_sentences)
        en_count == Len(en_sentences)
    IN  IF zh_count = en_count + 1
        THEN Aligned(Append(PairsInOrder(zh_sentences, en_sentences, chapter_num,
                                         start_ref, en_count - 1),
                            Passage(Ref(chapter_num, start_ref + en_count - 1),
                                    zh_sentences[zh_count],
                                    en_sentences[en_count])),
                     start_ref + en_count)
        ELSE Aligned(Append(PairsInOrder(zh_sentences, en_sentences, chapter_num,
                                         start_ref, zh_count - 1),
                            Passage(Ref(chapter_num, start_ref + zh_count - 1),
                                    zh_sentences[zh_count],
                                    en_sentences[en_count])),
                     start_ref + zh_count)

\* the two trailing target sentences merged without the space between them
AlignOffByOne_unspaced(zh_sentences, en_sentences, chapter_num, start_ref) ==
    LET zh_count == Len(zh_sentences)
        en_count == Len(en_sentences)
    IN  IF zh_count = en_count + 1
        THEN Aligned(Append(PairsInOrder(zh_sentences, en_sentences, chapter_num,
                                         start_ref, en_count - 1),
                            Passage(Ref(chapter_num, start_ref + en_count - 1),
                                    zh_sentences[zh_count - 1] \o zh_sentences[zh_count],
                                    en_sentences[en_count])),
                     start_ref + en_count)
        ELSE Aligned(Append(PairsInOrder(zh_sentences, en_sentences, chapter_num,
                                         start_ref, zh_count - 1),
                            Passage(Ref(chapter_num, start_ref + zh_count - 1),
                                    zh_sentences[zh_count],
                                    en_sentences[en_count - 1] \o en_sentences[en_count])),
                     start_ref + zh_count)

\* align_passages, lines 114-145: the counts differ by one; the two trailing
\* sentences of the longer side are merged
AlignOffByOne(zh_sentences, en_sentences, chapter_num, start_ref) ==
    LET zh_count == Len(zh_sentences)
        en_count == Len(en_sentences)
    IN  IF zh_count = en_count + 1
        THEN Aligned(Append(PairsInOrder(zh_sentences, en_sentences, chapter_num,
                                         start_ref, en_count - 1),
                            Passage(Ref(chapter_num, start_ref + en_count - 1),
                                    zh_sentences[zh_count - 1] \o zh_sentences[zh_count],
                                    en_sentences[en_count])),
                     start_ref + en_count)
        ELSE Aligned(Append(PairsInOrder(zh_sentences, en_sentences, chapter_num,
                                         start_ref, zh_count - 1),
                            Passage(Ref(chapter_num, start_ref + zh_count - 1),
                                    zh_sentences[zh_count],
                                    en_sentences[en_count - 1] \o <<Space>>
                                        \o en_sentences[en_count])),
                     start_ref + zh_count)

\* the fallback that keeps the pairs it can make and drops the rest
AlignFallback_pairs(zh_sentences, en_sentences, chapter_num, start_ref) ==
    LET count == IF Len(zh_sentences) < Len(en_sentences)
                 THEN Len(zh_sentences) ELSE Len(en_sentences)
    IN  Aligned(PairsInOrder(zh_sentences, en_sentences, chapter_num, start_ref, count),
                start_ref + count)

\* align_passages, lines 147-153: the counts differ too much; one passage
AlignFallback(zh_sentences, en_sentences, chapter_num, start_ref) ==
    Aligned(<<Passage(Ref(chapter_num, start_ref),
                      Join(<<>>, zh_sentences), Join(<<Space>>, en_sentences))>>,
            start_ref + 1)

\* one empty side handled like two empty sides
AlignOneSided_nothing(zh_sentences, en_sentences, chapter_num, start_ref) ==
    Aligned(<<>>, start_ref)

\* align_passages, lines 84-101: at least one side has no sentences
AlignOneSided(zh_sentences, en_sentences, chapter_num, start_ref) ==
    IF Len(zh_sentences) = 0 /\ Len(en_sentences) = 0
    THEN Aligned(<<>>, start_ref)
    ELSE IF Len(zh_sentences) = 0
         THEN Aligned(<<Passage(Ref(chapter_num, start_ref), <<>>,
                                Join(<<Space>>, en_sentences))>>,
                      start_ref + 1)
         ELSE Aligned(<<Passage(Ref(chapter_num, start_ref),
                                Join(<<>>, zh_sentences), <<>>)>>,
                      start_ref + 1)

\* align_passages(zh_sentences, en_sentences, chapter_num, start_ref)
align_passages(zh_sentences, en_sentences, chapter_num, start_ref) ==
    LET zh_count == Len(zh_sentences)
        en_count == Len(en_sentences)
    IN  IF zh_count = 0 \/ en_count = 0
        THEN AlignOneSided(zh_sentences, en_sentences, chapter_num, start_ref)
        ELSE IF zh_count = en_count
             THEN AlignEqual(zh_sentences, en_sentences, chapter_num, start_ref)
             ELSE IF zh_count - en_count = 1 \/ en_count - zh_count = 1
                  THEN AlignOffByOne(zh_sentences, en_sentences, chapter_num, start_ref)
                  ELSE AlignFallback(zh_sentences, en_sentences, chapter_num, start_ref)

\* what a splitter hands back: its sentences, or the exception it raised
Sentences(list) == [raised |-> FALSE, sentences |-> list]
Raised == [raised |-> TRUE, sentences |-> <<>>]

ZhTerminals == {ZhStop, ZhExclamation, ZhQuestion}
ClosingQuotes == {ZhCloseQuote, ZhCloseDoubleQuote, "\"", "'"}

\* an inner loop that takes no closing quote
SkipQuotes_none(text, i) == i

\* the inner while loop of split_chinese_sentences: the index of the last of
\* the closing quotes that follow position i
RECURSIVE SkipQuotes(_, _)
SkipQuotes(text, i) ==
    IF i + 1 <= Len(text) /\ text[i + 1] \in ClosingQuotes
    THEN SkipQuotes(text, i + 1) ELSE i

\* the outer while loop of split_chinese_sentences from position i on
RECURSIVE SplitChineseFrom(_, _, _, _)
SplitChineseFrom(text, i, current, sentences) ==
    IF i > Len(text)
    THEN IF Strip(current) # <<>> THEN Append(sentences, Strip(current)) ELSE sentences
    ELSE IF text[i] \in ZhTerminals
         THEN LET j == SkipQuotes(text, i)
              IN  SplitChineseFrom(text, j + 1, <<>>,
                                   Append(sentences, Strip(current \o SubSeq(text, i, j))))
         ELSE SplitChineseFrom(text, i + 1, Append(current, text[i]), sentences)

\* split_chinese_sentences(text)
split_chinese_sentences(text) ==
    SelectSeq(SplitChineseFrom(text, 1, <<>>, <<>>), LAMBDA sentence : Strip(sentence) # <<>>)

\* split_english_sentences(text): blank text has no sentences; for any other
\* text re.split is given a look-behind of variable width, (?<=[.!?]["']?),
\* which the re module rejects with re.error
split_english_sentences(text) ==
    IF Strip(text) = <<>> THEN Sentences(<<>>) ELSE Raised

(* ------------------------------ auditor -------------------------------- *)
\* len(en.strip()) < 10
MinTranslationLength == 10

\* BAD_PATTERNS, each as pattern.lower()
BAD_PATTERNS ==
    << <<"e", "n", "j", "o", "y", " ", "t", "h", "i", "s", " ", "s", "i", "t", "e", "?", " ", "p", "l", "e", "a", "s", "e", " ", "h", "e", "l", "p">>,
       <<"p", "l", "e", "a", "s", "e", " ", "h", "e", "l", "p">>,
       <<"s", "i", "t", "e", " ", "f", "e", "e", "d", "b", "a", "c", "k">>,
       <<"c", "t", "e", "x", "t", ".", "o", "r", "g">>,
       <<"l", "o", "g", " ", "i", "n">>,
       <<"s", "i", "g", "n", " ", "u", "p">>,
       <<"p", "r", "i", "v", "a", "c", "y", " ", "p", "o", "l", "i", "c", "y">>,
       <<"t", "e", "r", "m", "s", " ", "o", "f", " ", "s", "e", "r", "v", "i", "c", "e">> >>

\* ord(c) of the characters beyond ASCII that the texts here are made of
CodePoint ==
    [c \in {"U+3002", "U+300D", "U+300F", "U+33FF", "U+3400", "U+4DBF", "U+4DC0",
            "U+4E00", "U+4E01", "U+4E19", "U+4E59", "U+620A", "U+7532", "U+9FFF",
            "U+A000", "U+FF01", "U+FF1F"} |->
        CASE c = "U+3002" -> 12290 [] c = "U+300D" -> 12301 [] c = "U+300F" -> 12303
          [] c = "U+33FF" -> 13311 [] c = "U+3400" -> 13312 [] c = "U+4DBF" -> 19903
          [] c = "U+4DC0" -> 19904 [] c = "U+4E00" -> 19968 [] c = "U+4E01" -> 19969
          [] c = "U+4E19" -> 19993 [] c = "U+4E59" -> 20057 [] c = "U+620A" -> 25098
          [] c = "U+7532" -> 30002 [] c = "U+9FFF" -> 40959 [] c = "U+A000" -> 40960
          [] c = "U+FF01" -> 65281 [] c = "U+FF1F" -> 65311]

\* '\u4e00' <= c <= '\u9fff' or '\u3400' <= c <= '\u4dbf'
Ideographs ==
    { c \in DOMAIN CodePoint :
        \/ 19968 <= CodePoint[c] /\ CodePoint[c] <= 40959
        \/ 13312 <= CodePoint[c] /\ CodePoint[c] <= 19903 }

\* str.lower()
RECURSIVE LowerText(_)
LowerText(text) ==
    IF text = <<>> THEN <<>> ELSE <<Lower(Head(text))>> \o LowerText(Tail(text))

\* pattern in text
Contains(text, pattern) ==
    \/ pattern = <<>>
    \/ \E i \in 0..(Len(text) - Len(pattern)) :
           /\ text[i + 1] = pattern[1]
           /\ SubSeq(text, i + 1, i + Len(pattern)) = pattern

\* sum(1 for c in en if c is an ideograph)
RECURSIVE chinese_count(_)
chinese_count(en) ==
    IF en = <<>> THEN 0
    ELSE (IF Head(en) \in Ideographs THEN 1 ELSE 0) + chinese_count(Tail(en))

is_bad_translation_at_least_30(en) ==
    \/ en = <<>>
    \/ Len(Strip(en)) < MinTranslationLength
    \/ LET en_lower == LowerText(en)
       IN  \E k \in 1..Len(BAD_PATTERNS) : Contains(en_lower, BAD_PATTERNS[k])
    \/ 10 * chinese_count(en) >= 3 * Len(en)

\* is_bad_translation(en); chinese_count / len(en) > 0.3 in integers
is_bad_translation(en) ==
    \/ en = <<>>
    \/ Len(Strip(en)) < MinTranslationLength
    \/ LET en_lower == LowerText(en)
       IN  \E k \in 1..Len(BAD_PATTERNS) : Contains(en_lower, BAD_PATTERNS[k])
    \/ 10 * chinese_count(en) > 3 * Len(en)

\* validate_translation, lines 79-82: the suspect passages of a chapter
RECURSIVE chapter_bad_passages(_)
chapter_bad_passages(ps) ==
    IF ps = <<>> THEN 0
    ELSE (IF is_bad_translation(Head(ps).en) THEN 1 ELSE 0) + chapter_bad_passages(Tail(ps))

\* validate_translation, lines 74-82: chapter_bad_passages of every chapter
RECURSIVE BadCounts(_)
BadCounts(chapters) ==
    IF chapters = <<>> THEN <<>>
    ELSE <<chapter_bad_passages(Head(chapters).passages)>> \o BadCounts(Tail(chapters))

\* the test passed by a chapter of which half the passages are suspect
IsBadChapter_at_least_half(bad_passages, ps) ==
    /\ Len(ps) > 0
    /\ 2 * bad_passages >= Len(ps)

\* validate_translation, line 85: chapter_bad_passages / len(passages) > 0.5
IsBadChapter(bad_passages, ps) ==
    /\ Len(ps) > 0
    /\ 2 * bad_passages > Len(ps)

\* validate_translation, lines 74-93: the indices of the flagged chapters
RECURSIVE ChaptersToRemove(_, _, _)
ChaptersToRemove(chapters, counts, ch_idx) ==
    IF ch_idx > Len(chapters) THEN <<>>
    ELSE (IF IsBadChapter(counts[ch_idx], chapters[ch_idx].passages)
          THEN <<ch_idx>> ELSE <<>>)
         \o ChaptersToRemove(chapters, counts, ch_idx + 1)

\* del chapters[idx]
Delete(chapters, idx) ==
    SubSeq(chapters, 1, idx - 1) \o SubSeq(chapters, idx + 1, Len(chapters))

\* the removal of the last flagged chapter alone
RemoveChapters_last_only(chapters, indices) ==
    IF indices = <<>> THEN chapters
    ELSE Delete(chapters, indices[Len(indices)])

\* the flagged chapters emptied of their passages and left in the document
RECURSIVE RemoveChapters_empties(_, _)
RemoveChapters_empties(chapters, indices) ==
    IF indices = <<>> THEN chapters
    ELSE RemoveChapters_empties(
             [chapters EXCEPT ![indices[Len(indices)]].passages = <<>>],
             SubSeq(indices, 1, Len(indices) - 1))

\* the removal from the first index to the last, each index as first computed
RECURSIVE RemoveChapters_forward(_, _)
RemoveChapters_forward(chapters, indices) ==
    IF indices = <<>> THEN chapters
    ELSE RemoveChapters_forward(
             IF Head(indices) <= Len(chapters) THEN Delete(chapters, Head(indices))
             ELSE chapters,
             Tail(indices))

\* validate_translation, lines 102-103: for idx in reversed(chapters_to_remove)
RECURSIVE RemoveChapters(_, _)
RemoveChapters(chapters, indices) ==
    IF indices = <<>> THEN chapters
    ELSE RemoveChapters(Delete(chapters, indices[Len(indices)]),
                        SubSeq(indices, 1, Len(indices) - 1))

\* chapter.get("slug", "")
SlugOf(chapter) == IF HasSlug(chapter) THEN chapter.slug ELSE <<>>

\* validate_translation, lines 86-92: the entry of results["bad_chapters"]
BadChapterEntry(chapter, bad_passages) ==
    [number |-> chapter.number, slug |-> SlugOf(chapter), title |-> chapter.title,
     bad_passages |-> bad_passages,
     total_passages |-> Len(chapter.passages)]

\* what validate_translation hands back: nothing yet, the error entry of a
\* missing file, an exception that escaped it, or the results
NoResults == [kind |-> "none"]
FileNotFound(id) == [kind |-> "error", text_id |-> id]
AuditRaised(id) == [kind |-> "raised", text_id |-> id]

RECURSIVE Sum(_)
Sum(numbers) == IF numbers = <<>> THEN 0 ELSE Head(numbers) + Sum(Tail(numbers))

RECURSIVE TotalPassages(_)
TotalPassages(chapters) ==
    IF chapters = <<>> THEN 0
    ELSE Len(Head(chapters).passages) + TotalPassages(Tail(chapters))

\* validate_translation, lines 63-70, 74-97 and 108-109: the results for a
\* document with the given chapters, suspect counts and flagged indices
Results(id, chapters, counts, chapters_to_remove, fixed) ==
    [kind |-> "results",
     text_id |-> id,
     total_chapters |-> Len(chapters),
     total_passages |-> TotalPassages(chapters),
     bad_chapters |-> [j \in 1..Len(chapters_to_remove) |->
                          BadChapterEntry(chapters[chapters_to_remove[j]],
                                          counts[chapters_to_remove[j]])],
     bad_passages |-> Sum(counts),
     fixed |-> fixed,
     chapters_removed |-> IF fixed THEN Len(chapters_to_remove) ELSE 0]

(* ------------------------------- state --------------------------------- *)
VARIABLES
    parser,             \* one CTEXTParser instance (extractor specification)
    nEvents,            \* events fed to it so far
    cells,              \* history: the classes of the td elements open, innermost last
    unpaired,           \* history: the source texts closed since the last pair was emitted
    emitted_from,       \* history: for every pair emitted, unpaired as the pair was emitted
    disk,               \* OUTPUT_DIR: text id -> file
    pc,                 \* where the process is: "idle", "work", "loop", "request", "exited"
    runs,               \* process runs started so far
    texts_to_scrape,    \* main: the works still to process, the current one first
    output,             \* main: the document being built
    chapters_to_scrape, \* main: the pages still to fetch, the current one first
    passages,           \* main: the result of the last fetch_chapter call
    exit_code,          \* exit status of the last process; -1 while none has ended
    ended,              \* how the last process ended: "", "done", "interrupt", "io_error",
                        \* "unknown_texts"
    g_session,          \* the module global _session
    session,            \* fetch_chapter's local variable session
    attempt,            \* fetch_chapter's loop variable
    response,           \* fetch_chapter: what session.get last returned or raised
    nSessions,          \* sessions created by this process
    resets,             \* reset_session calls of this process
    callLog,            \* history: responses of the current or last fetch_chapter call
    callResets,         \* history: reset_session calls of that call
    callSessions,       \* history: the session each request of that call was sent on
    fetchCalls,         \* history: fetch_chapter calls of the current or last process
    argv,               \* history: the positional arguments of the current or last process
    discarded,          \* history: the sessions reset_session has discarded in this process
    sinceReset,         \* history: the sessions requests were sent on since the last reset
    g_scraping_service, \* _scraping_service: the relay in use, if any
    g_api_key,          \* _api_key: the key of the relay
    g_use_proxy,        \* _use_proxy
    g_proxy_list,       \* _proxy_list
    fetchLog,           \* history: the pages fetch_chapter was called for in this process
    passLog,            \* history: those of the current pass over a work
    apc,                \* process_chapter: "idle", "loop", "written", "crashed"
    orig_passages,      \* process_chapter: the coarse passages still to split
    chapter_num,        \* process_chapter: the chapter number given
    ref_counter,        \* process_chapter: the next passage index
    all_passages,       \* process_chapter: the passages emitted so far
    zh_sentences,       \* the source sentences of the last align_passages call
    en_sentences,       \* the target sentences of the last align_passages call
    new_passages,       \* the passages the last align_passages call returned
    nCalls,             \* history: align_passages calls so far
    split_file,         \* the output file of process_chapter
    fix_mode,           \* the auditor's main: "--fix" in sys.argv
    results             \* what the last validate_translation call handed back

parserHistory == <<cells, unpaired, emitted_from>>
parserVars == <<parser, nEvents, parserHistory>>
configVars == <<g_scraping_service, g_api_key, g_use_proxy, g_proxy_list>>
mainVars == <<disk, pc, runs, configVars, texts_to_scrape, output, chapters_to_scrape,
              passages, exit_code, ended>>
fetchVars == <<g_session, session, attempt, response, nSessions, resets>>
transportHistory == <<callLog, callResets, callSessions>>
sessionHistory == <<discarded, sinceReset>>
fetchHistory == <<fetchLog, passLog>>
alignerVars == <<apc, orig_passages, chapter_num, ref_counter, all_passages,
                 zh_sentences, en_sentences, new_passages, nCalls, split_file>>
auditVars == <<fix_mode, results>>
offlineVars == <<alignerVars, auditVars>>
vars == <<parser, nEvents, cells, unpaired, emitted_from, disk, pc, runs, texts_to_scrape, output, chapters_to_scrape,
          passages, exit_code, ended, g_session, session, attempt, response, nSessions,
          resets, callLog, callResets, callSessions, fetchCalls, argv, discarded, sinceReset, fetchLog, passLog,
          g_scraping_service, g_api_key, g_use_proxy, g_proxy_list,
          apc, orig_passages,
          chapter_num, ref_counter, all_passages, zh_sentences, en_sentences,
          new_passages, nCalls, split_file, fix_mode, results>>

NoSession == [id |-> 0, profile |-> 0, proxies |-> None]
NoOutput == [id |-> "", chapters |-> <<>>]
Response(status, body) == [status |-> status, body |-> body]
NoResponse == Response("", <<>>)

\* the values the variables of a process have before it starts and after it ends
ProcessGone ==
    /\ texts_to_scrape' = <<>>
    /\ output' = NoOutput
    /\ chapters_to_scrape' = <<>>
    /\ passages' = <<>>
    /\ g_session' = NoSession
    /\ session' = NoSession
    /\ attempt' = 0
    /\ response' = NoResponse
    /\ nSessions' = 0
    /\ resets' = 0

MainInit ==
    /\ disk = [t \in TextIds |-> NoFile]
    /\ pc = "idle"
    /\ runs = 0
    /\ texts_to_scrape = <<>>
    /\ output = NoOutput
    /\ chapters_to_scrape = <<>>
    /\ passages = <<>>
    /\ exit_code = -1
    /\ ended = ""
    /\ g_session = NoSession
    /\ session = NoSession
    /\ attempt = 0
    /\ response = NoResponse
    /\ nSessions = 0
    /\ resets = 0

\* the module globals as the module sets them, lines 412-417
DefaultApiKey == "25eafe26d8a38e8e1ffd8c2aa907cf23"
ModuleGlobals ==
    [scraping_service |-> Some("scraperapi"), api_key |-> DefaultApiKey,
     use_proxy |-> FALSE, proxy_list |-> <<>>]

HasGlobals(g) ==
    /\ g_scraping_service = g.scraping_service
    /\ g_api_key = g.api_key
    /\ g_use_proxy = g.use_proxy
    /\ g_proxy_list = g.proxy_list

ConfigInit == HasGlobals(ModuleGlobals)

HistoryInit ==
    /\ callLog = <<>>
    /\ callResets = 0
    /\ callSessions = <<>>
    /\ fetchCalls = 0
    /\ argv = <<>>
    /\ discarded = {}
    /\ sinceReset = {}
    /\ fetchLog = <<>>
    /\ passLog = <<>>

ParserInit ==
    /\ parser = NewParser
    /\ nEvents = 0
    /\ cells = <<>>
    /\ unpaired = <<>>
    /\ emitted_from = <<>>

\* no process_chapter call has been made
AlignerIdle ==
    /\ apc = "idle"
    /\ orig_passages = <<>>
    /\ chapter_num = 0
    /\ ref_counter = 0
    /\ all_passages = <<>>
    /\ zh_sentences = <<>>
    /\ en_sentences = <<>>
    /\ new_passages = <<>>
    /\ nCalls = 0
    /\ split_file = NoFile

(* ---------------------------- the extractor ---------------------------- *)
Tags == {"td", "div"}
Classes == {"ctext", "etext", ""}
Chunks == { <<Space>>, <<"a">> }

FeedStartTag(tag, cls) ==
    /\ nEvents < MaxEvents
    /\ parser' = handle_starttag(parser, tag, cls)
    /\ nEvents' = nEvents + 1
    /\ UNCHANGED <<mainVars, fetchVars, transportHistory, fetchCalls, argv, sessionHistory,
                   fetchHistory, offlineVars>>

FeedEndTag(tag) ==
    /\ nEvents < MaxEvents
    /\ parser' = handle_endtag(parser, tag)
    /\ nEvents' = nEvents + 1
    /\ UNCHANGED <<mainVars, fetchVars, transportHistory, fetchCalls, argv, sessionHistory,
                   fetchHistory, offlineVars>>

FeedData(d) ==
    /\ nEvents < MaxEvents
    /\ parser' = handle_data(parser, d)
    /\ nEvents' = nEvents + 1
    /\ UNCHANGED <<mainVars, fetchVars, transportHistory, fetchCalls, argv, sessionHistory,
                   fetchHistory, offlineVars>>

ParserNext ==
    \/ \E tag \in Tags, cls \in Classes : FeedStartTag(tag, cls) /\ UNCHANGED parserHistory
    \/ \E tag \in Tags : FeedEndTag(tag) /\ UNCHANGED parserHistory
    \/ \E d \in Chunks : FeedData(d) /\ UNCHANGED parserHistory

\* the td elements open after a tag: a start tag opens one, an end tag closes
\* the innermost
CellsRecorded(type, tag, cls) ==
    cells' = IF tag # "td" THEN cells
             ELSE IF type = "start" THEN Append(cells, cls)
             ELSE IF cells # <<>> THEN SubSeq(cells, 1, Len(cells) - 1)
             ELSE cells

\* the source texts that became pending, and what each pair was emitted from
SourcesRecorded ==
    LET closed == IF parser.in_ctext_td /\ ~parser'.in_ctext_td
                     /\ Strip(parser.current_zh) # <<>>
                  THEN Append(unpaired, Strip(parser.current_zh))
                  ELSE unpaired
    IN  IF Len(parser'.passages) > Len(parser.passages)
        THEN /\ emitted_from' = Append(emitted_from, closed)
             /\ unpaired' = <<>>
        ELSE /\ emitted_from' = emitted_from
             /\ unpaired' = closed

\* text chunks that tell two source cells apart
CellChunks == { <<Space>>, <<"a">>, <<"b">> }

CellNext ==
    \/ \E tag \in Tags, cls \in Classes :
          FeedStartTag(tag, cls) /\ CellsRecorded("start", tag, cls) /\ SourcesRecorded
    \/ \E tag \in Tags :
          FeedEndTag(tag) /\ CellsRecorded("end", tag, "") /\ SourcesRecorded
    \/ \E d \in CellChunks :
          FeedData(d) /\ UNCHANGED cells /\ SourcesRecorded

(* ------------------------------ transport ------------------------------ *)
Profiles == 1..NProfiles

\* a session that gets the manual proxy whether or not a relay is in use
NewSession_proxy_with_relay(profile) ==
    [id |-> nSessions + 1, profile |-> profile,
     proxies |-> IF g_use_proxy /\ g_proxy_list # <<>>
                 THEN Some(g_proxy_list[1]) ELSE None]

\* get_session(), lines 442-454: a new session with a randomly chosen profile;
\* the manual proxy is set on it only when no relay is in use
NewSession(profile) ==
    [id |-> nSessions + 1, profile |-> profile,
     proxies |-> IF g_use_proxy /\ g_proxy_list # <<>> /\ g_scraping_service = None
                 THEN Some(g_proxy_list[1]) ELSE None]

\* get_session(): the global session, created when there is none
get_session(profile) ==
    IF g_session = NoSession THEN NewSession(profile) ELSE g_session

(* -------------------------------- main --------------------------------- *)
text_id == Head(texts_to_scrape)
info == TEXTS[text_id]
IsSinglePage(i) == i.chapters = None

(* ------------------------------ requests ------------------------------- *)
\* TEXTS[id]["base_url"]
BaseUrl ==
    [analects |-> <<"h","t","t","p","s",":","/","/","c","t","e","x","t",".","o","r","g","/","a","n","a","l","e","c","t","s">>,
     daxue    |-> <<"h","t","t","p","s",":","/","/","c","t","e","x","t",".","o","r","g","/","l","i","j","i","/","d","a","-","x","u","e">>]

\* the endpoints of the relays, lines 426-434
ScraperApiUrl == <<"h","t","t","p","s",":","/","/","a","p","i",".","s","c","r","a","p","e","r","a","p","i",".","c","o","m","/">>
ScrapeDoUrl == <<"h","t","t","p","s",":","/","/","a","p","i",".","s","c","r","a","p","e",".","d","o","/">>
ZenRowsUrl == <<"h","t","t","p","s",":","/","/","a","p","i",".","z","e","n","r","o","w","s",".","c","o","m","/","v","1","/">>

\* main, lines 756 and 766: the URL of the page that an entry of
\* chapters_to_scrape stands for
PageUrl(t, entry) ==
    IF entry = None THEN BaseUrl[t] ELSE BaseUrl[t] \o <<"/">> \o entry[2]

\* "/".join(url.rsplit("/", 1)[:-1]) if "/" in url else url
LastSlash(url) == CHOOSE i \in 1..Len(url) : url[i] = "/" /\ \A j \in (i + 1)..Len(url) : url[j] # "/"
ParentPath(url) ==
    IF \E i \in 1..Len(url) : url[i] = "/" THEN SubSeq(url, 1, LastSlash(url) - 1) ELSE url

\* build_scraping_params(target_url) with its parameters as (name, value) pairs
build_scraping_params(target_url) ==
    IF g_scraping_service = Some("scraperapi")
    THEN [request_url |-> ScraperApiUrl,
          params |-> {<<"api_key", Some(g_api_key)>>, <<"url", target_url>>}]
    ELSE IF g_scraping_service = Some("scrapedo")
    THEN [request_url |-> ScrapeDoUrl,
          params |-> {<<"token", Some(g_api_key)>>, <<"url", target_url>>}]
    ELSE IF g_scraping_service = Some("zenrows")
    THEN [request_url |-> ZenRowsUrl,
          params |-> {<<"apikey", Some(g_api_key)>>, <<"url", target_url>>}]
    ELSE [request_url |-> target_url, params |-> {}]

\* fetch_chapter, lines 518 and 530-534: the request that session.get sends
\* for the page url: where it goes, with which parameters, through which
\* proxy of the session, and with which Referer set just before it
SessionGet(s, url) ==
    LET built == build_scraping_params(url)
    IN  [url |-> built.request_url,
         params |-> built.params,
         proxies |-> s.proxies,
         referer |-> IF g_scraping_service = None THEN Some(ParentPath(url)) ELSE None]

\* the request in flight
Request == SessionGet(session, PageUrl(text_id, Head(chapters_to_scrape)))

\* a in args, args.index(a), and args without the positions in drop
InArgs(args, a) == \E i \in 1..Len(args) : args[i] = a
IndexOf(args, a) == CHOOSE i \in 1..Len(args) : args[i] = a /\ \A j \in 1..(i - 1) : args[j] # a

RECURSIVE WithoutFrom(_, _, _)
WithoutFrom(args, i, drop) ==
    IF i > Len(args) THEN <<>>
    ELSE (IF i \in drop THEN <<>> ELSE <<args[i]>>) \o WithoutFrom(args, i + 1, drop)

Without(args, drop) == WithoutFrom(args, 1, drop)

ServiceFlags == << [flag |-> "--scraper-api", name |-> "scraperapi"],
                   [flag |-> "--scrape-do", name |-> "scrapedo"],
                   [flag |-> "--zenrows", name |-> "zenrows"] >>

Parsed(failed, g, args) == [failed |-> failed, globals |-> g, args |-> args]

\* main, lines 634-649: the first of the relay flags that is on the command
\* line selects the relay and its key; the loop ends after it
ParseService(g, args) ==
    IF \A k \in 1..Len(ServiceFlags) : ~InArgs(args, ServiceFlags[k].flag)
    THEN Parsed(FALSE, g, args)
    ELSE LET k == CHOOSE c \in 1..Len(ServiceFlags) :
                     /\ InArgs(args, ServiceFlags[c].flag)
                     /\ \A b \in 1..(c - 1) : ~InArgs(args, ServiceFlags[b].flag)
             idx == IndexOf(args, ServiceFlags[k].flag)
         IN  IF idx + 1 <= Len(args)
             THEN Parsed(FALSE,
                         [g EXCEPT !.api_key = args[idx + 1],
                                   !.scraping_service = Some(ServiceFlags[k].name)],
                         Without(args, {idx, idx + 1}))
             ELSE Parsed(TRUE, g, args)

\* main, lines 652-663: --proxy host:port
ParseProxy(g, args) ==
    IF ~InArgs(args, "--proxy") THEN Parsed(FALSE, g, args)
    ELSE LET proxy_idx == IndexOf(args, "--proxy")
         IN  IF proxy_idx + 1 <= Len(args)
             THEN Parsed(FALSE,
                         [g EXCEPT !.proxy_list = <<args[proxy_idx + 1]>>, !.use_proxy = TRUE],
                         Without(args, {proxy_idx, proxy_idx + 1}))
             ELSE Parsed(TRUE, g, args)

\* main, lines 666-669: --no-proxy
ParseNoProxy(g, args) ==
    IF ~InArgs(args, "--no-proxy") THEN Parsed(FALSE, g, args)
    ELSE Parsed(FALSE, [g EXCEPT !.use_proxy = FALSE, !.proxy_list = <<>>],
                Without(args, { i \in 1..Len(args) : args[i] = "--no-proxy" }))

\* main, lines 631-669: the options of the command line, in the order in which
\* main handles them
ParseOptions(g, args) ==
    LET service == ParseService(g, args)
        proxy == ParseProxy(service.globals, service.args)
    IN  IF service.failed THEN service
        ELSE IF proxy.failed THEN proxy
        ELSE ParseNoProxy(proxy.globals, proxy.args)

\* main, lines 625-698, entered with the module globals g: the command line is
\* parsed; the process exits when an option lacks its argument, or when ids
\* were given and none is in the catalog, else the loop over texts_to_scrape
\* begins
Main(g, command) ==
    LET parsed == ParseOptions(g, command)
        args == parsed.args
    IN  /\ pc \in {"idle", "exited"}
        /\ runs < MaxRuns
        /\ runs' = runs + 1
        /\ g_scraping_service' = parsed.globals.scraping_service
        /\ g_api_key' = parsed.globals.api_key
        /\ g_use_proxy' = parsed.globals.use_proxy
        /\ g_proxy_list' = parsed.globals.proxy_list
        /\ texts_to_scrape' = IF parsed.failed THEN <<>> ELSE Requested(args)
        /\ IF parsed.failed
           THEN /\ pc' = "exited"
                /\ exit_code' = 1
                /\ ended' = "usage"
           ELSE IF args # <<>> /\ texts_to_scrape' = <<>>
           THEN /\ pc' = "exited"
                /\ exit_code' = 1
                /\ ended' = "unknown_texts"
           ELSE /\ pc' = "work"
                /\ exit_code' = -1
                /\ ended' = ""
        /\ fetchCalls' = 0
        /\ UNCHANGED <<disk, output, chapters_to_scrape, passages, fetchVars>>

\* python scrape_ctp.py args: main in a new process, where the module globals
\* have the values the module gives them
StartRun(args) == Main(ModuleGlobals, args)

\* main, lines 701-750: load the existing document and decide what to fetch
BeginWork ==
    /\ pc = "work"
    /\ texts_to_scrape # <<>>
    /\ LET existing == LoadExisting(disk[text_id])
           existing_slugs == ExistingSlugs(existing)
           missing == MissingFrom(info.chapters, 1, existing_slugs)
           complete ==
               IF IsSinglePage(info)
               THEN /\ existing # None
                    /\ Get(existing).chapters # <<>>
                    /\ Get(existing).chapters[1].passages # <<>>
               ELSE missing = <<>>
       IN  IF complete
           THEN /\ texts_to_scrape' = Tail(texts_to_scrape)
                /\ UNCHANGED <<pc, output, chapters_to_scrape>>
           ELSE /\ chapters_to_scrape' = IF IsSinglePage(info) THEN <<None>> ELSE missing
                /\ output' = StartOutput(existing, text_id)
                /\ pc' = "loop"
                /\ UNCHANGED texts_to_scrape
    /\ UNCHANGED <<disk, runs, configVars, passages, exit_code, ended, fetchVars, fetchCalls>>

\* fetch_chapter is called for the next page and sends its first request
CallFetch(profile) ==
    /\ pc = "loop"
    /\ chapters_to_scrape # <<>>
    /\ g_session' = get_session(profile)
    /\ nSessions' = IF g_session = NoSession THEN nSessions + 1 ELSE nSessions
    /\ session' = g_session'
    /\ attempt' = 0
    /\ response' = NoResponse
    /\ passages' = <<>>
    /\ pc' = "request"
    /\ fetchCalls' = fetchCalls + 1
    /\ UNCHANGED <<disk, runs, configVars, texts_to_scrape, output, chapters_to_scrape,
                   exit_code, ended, resets>>

\* main appending a chapter for every result, also an empty one
Return_appends_always(ps) ==
    /\ passages' = ps
    /\ output' =
         [output EXCEPT !.chapters =
             Append(@, IF IsSinglePage(info)
                       THEN SingleChapter(info.titleEn, ps)
                       ELSE PageChapter(Head(chapters_to_scrape)[1],
                                        Head(chapters_to_scrape)[2], ps))]
    /\ chapters_to_scrape' = Tail(chapters_to_scrape)
    /\ pc' = "loop"
    /\ attempt' = 0
    /\ session' = NoSession
    /\ UNCHANGED <<disk, runs, configVars, texts_to_scrape, exit_code, ended, fetchCalls>>

\* fetch_chapter returns ps to main, which appends a chapter when ps is not empty
Return(ps) ==
    /\ passages' = ps
    /\ output' =
         IF ps = <<>> THEN output
         ELSE [output EXCEPT !.chapters =
                 Append(@, IF IsSinglePage(info)
                           THEN SingleChapter(info.titleEn, ps)
                           ELSE PageChapter(Head(chapters_to_scrape)[1],
                                            Head(chapters_to_scrape)[2], ps))]
    /\ chapters_to_scrape' = Tail(chapters_to_scrape)
    /\ pc' = "loop"
    /\ attempt' = 0
    /\ session' = NoSession
    /\ UNCHANGED <<disk, runs, configVars, texts_to_scrape, exit_code, ended, fetchCalls>>

\* a loop that allows one request more than the budget
NextAttempt_one_more(s) ==
    IF attempt + 1 < Retries + 1
    THEN /\ attempt' = attempt + 1
         /\ session' = s
         /\ UNCHANGED <<mainVars, fetchCalls>>
    ELSE Return(<<>>)

\* the for loop of fetch_chapter goes on with the session s, or runs out
NextAttempt(s) ==
    IF attempt + 1 < Retries
    THEN /\ attempt' = attempt + 1
         /\ session' = s
         /\ UNCHANGED <<mainVars, fetchCalls>>
    ELSE Return(<<>>)

\* status 200: the page is parsed and its passages returned
Respond200(body) ==
    /\ pc = "request"
    /\ response' = Response("200", body)
    /\ Return(ParsedPage(body))
    /\ UNCHANGED <<g_session, nSessions, resets>>

\* status 403 handled without get_session(): the retry keeps the old session
Respond403_keeps_session(profile) ==
    /\ pc = "request"
    /\ resets < MaxResets
    /\ response' = Response("403", <<>>)
    /\ g_session' = NoSession
    /\ resets' = resets + 1
    /\ NextAttempt(session)
    /\ UNCHANGED nSessions

\* status 403: reset_session(), get_session(), sleep, next attempt
Respond403(profile) ==
    /\ pc = "request"
    /\ resets < MaxResets
    /\ response' = Response("403", <<>>)
    /\ g_session' = NewSession(profile)
    /\ nSessions' = nSessions + 1
    /\ resets' = resets + 1
    /\ NextAttempt(g_session')

\* status 404 handled like any other error status
Respond404_retries ==
    /\ pc = "request"
    /\ response' = Response("404", <<>>)
    /\ NextAttempt(session)
    /\ UNCHANGED <<g_session, nSessions, resets>>

\* a 404 that ends the process
Respond404_exits ==
    /\ pc = "request"
    /\ disk' = disk
    /\ pc' = "exited"
    /\ ended' = "not_found"
    /\ exit_code' = 1
    /\ ProcessGone
    /\ UNCHANGED <<runs, configVars, fetchCalls>>

\* status 404: return [] at once
Respond404 ==
    /\ pc = "request"
    /\ response' = Response("404", <<>>)
    /\ Return(<<>>)
    /\ UNCHANGED <<g_session, nSessions, resets>>

\* any other status: sleep, next attempt
RespondOtherStatus ==
    /\ pc = "request"
    /\ response' = Response("500", <<>>)
    /\ NextAttempt(session)
    /\ UNCHANGED <<g_session, nSessions, resets>>

\* a timeout handled like a connection error, with reset_session()
RespondTimeout_resets ==
    /\ pc = "request"
    /\ resets < MaxResets
    /\ response' = Response("timeout", <<>>)
    /\ g_session' = NoSession
    /\ resets' = resets + 1
    /\ NextAttempt(session)
    /\ UNCHANGED nSessions

\* requests.exceptions.Timeout: sleep, next attempt
RespondTimeout ==
    /\ pc = "request"
    /\ response' = Response("timeout", <<>>)
    /\ NextAttempt(session)
    /\ UNCHANGED <<g_session, nSessions, resets>>

\* requests.exceptions.ConnectionError: reset_session(), sleep, next attempt;
\* the local variable session is not assigned
RespondConnectionError ==
    /\ pc = "request"
    /\ resets < MaxResets
    /\ response' = Response("connection_error", <<>>)
    /\ g_session' = NoSession
    /\ resets' = resets + 1
    /\ NextAttempt(session)
    /\ UNCHANGED nSessions

\* any other Exception: sleep, next attempt
RespondException ==
    /\ pc = "request"
    /\ response' = Response("exception", <<>>)
    /\ NextAttempt(session)
    /\ UNCHANGED <<g_session, nSessions, resets>>

\* the process ends with the given code
Exit(how, code) ==
    /\ pc' = "exited"
    /\ ended' = how
    /\ exit_code' = code
    /\ ProcessGone
    /\ UNCHANGED fetchCalls

\* main, lines 778-787: the pages of the work are done; sort (multi-page works)
\* and save_output. An OSError of save_output is not caught.
FinishWork(io) ==
    /\ pc = "loop"
    /\ chapters_to_scrape = <<>>
    /\ LET out == IF IsSinglePage(info) THEN output
                  ELSE [output EXCEPT !.chapters = SortChapters(@)]
       IN  disk' = [disk EXCEPT ![text_id] = save_output(@, out, io)]
    /\ IF io = "ok"
       THEN /\ texts_to_scrape' = Tail(texts_to_scrape)
            /\ pc' = "work"
            /\ output' = NoOutput
            /\ passages' = <<>>
            /\ response' = NoResponse
            /\ UNCHANGED <<chapters_to_scrape, exit_code, ended, g_session, session,
                           attempt, nSessions, resets, fetchCalls>>
       ELSE Exit("io_error", 1)
    /\ UNCHANGED <<runs, configVars>>

\* an interrupt that ends the process without the save
Interrupt_no_save(io) ==
    /\ pc \in {"loop", "request"}
    /\ disk' = disk
    /\ Exit("interrupt", IF io = "ok" THEN 0 ELSE 1)
    /\ UNCHANGED <<runs, configVars>>

\* main, lines 781-785: KeyboardInterrupt inside the try block
Interrupt(io) ==
    /\ pc \in {"loop", "request"}
    /\ disk' = [disk EXCEPT ![text_id] = save_output(@, output, io)]
    /\ Exit("interrupt", IF io = "ok" THEN 0 ELSE 1)
    /\ UNCHANGED <<runs, configVars>>

\* main, line 789: every selected work was processed
Done ==
    /\ pc = "work"
    /\ texts_to_scrape = <<>>
    /\ Exit("done", 0)
    /\ UNCHANGED <<disk, runs, configVars>>

(* --------------------------- process_chapter --------------------------- *)
onlineVars == <<parserVars, mainVars, fetchVars, transportHistory, fetchCalls, argv,
                sessionHistory, fetchHistory>>

\* the chapter numbers process_chapter is called with, and the first chapter
ChapterNums == {1, 7, 8}

ZhSentenceStock ==
    << <<"U+7532", ZhStop>>, <<"U+4E59", ZhStop>>, <<"U+4E19", ZhStop>>,
       <<"U+4E01", ZhStop>>, <<"U+620A", ZhStop>> >>

EnSentenceStock ==
    << <<"A", ".">>, <<"B", " ", "b", ".">>, <<"C", ".">>, <<"D", ".">>, <<"E", ".">> >>

\* the sentence lists a call is given: the first m sentences of each side
ZhLists == { SubSeq(ZhSentenceStock, 1, m) : m \in 0..MaxSentences }
EnLists == { SubSeq(EnSentenceStock, 1, n) : n \in 0..MaxSentences }

\* the texts of the coarse passages in a chapter file
CoarseZh == { <<>>, <<"U+4E19">>, <<"U+7532", ZhStop, ZhCloseQuote, "U+4E59", ZhStop>> }
CoarseEn == { <<>>, <<Space>>, <<"A", ".", " ", "B", ".">> }
CoarsePassages == [zh : CoarseZh, en : CoarseEn]
ChapterFiles == UNION { [1..k -> CoarsePassages] : k \in 0..MaxCoarse }

\* the call made with start_ref 1 whatever the last call returned
Extend_restarts(zh, en) ==
    LET r == align_passages(zh, en, chapter_num, 1)
    IN  /\ zh_sentences' = zh
        /\ en_sentences' = en
        /\ new_passages' = r.passages
        /\ ref_counter' = r.next
        /\ all_passages' = all_passages \o r.passages
        /\ nCalls' = nCalls + 1

\* process_chapter, lines 174-178: align_passages is called with the counter
\* and its results are taken over
Extend(zh, en) ==
    LET r == align_passages(zh, en, chapter_num, ref_counter)
    IN  /\ zh_sentences' = zh
        /\ en_sentences' = en
        /\ new_passages' = r.passages
        /\ ref_counter' = r.next
        /\ all_passages' = all_passages \o r.passages
        /\ nCalls' = nCalls + 1

\* a caller hands two sentence lists to align_passages, threading the counter
AlignCall(zh, en) ==
    /\ apc = "loop"
    /\ nCalls < MaxCalls
    /\ Extend(zh, en)
    /\ UNCHANGED <<apc, orig_passages, chapter_num, split_file, onlineVars, auditVars>>

\* process_chapter, lines 159-163: the chapter file is read
ProcessChapter(file, n) ==
    /\ apc = "idle"
    /\ apc' = "loop"
    /\ orig_passages' = file
    /\ chapter_num' = n
    /\ all_passages' = <<>>
    /\ ref_counter' = 1
    /\ UNCHANGED <<zh_sentences, en_sentences, new_passages, nCalls, split_file, onlineVars,
                   auditVars>>

\* process_chapter, lines 165-178: one pass of the loop; an exception of a
\* splitter is not caught
ProcessPassage ==
    /\ apc = "loop"
    /\ orig_passages # <<>>
    /\ LET zh == split_chinese_sentences(Head(orig_passages).zh)
           en == split_english_sentences(Head(orig_passages).en)
       IN  IF en.raised
           THEN /\ apc' = "crashed"
                /\ UNCHANGED <<orig_passages, ref_counter, all_passages, zh_sentences,
                               en_sentences, new_passages, nCalls>>
           ELSE /\ Extend(zh, en.sentences)
                /\ orig_passages' = Tail(orig_passages)
                /\ UNCHANGED apc
    /\ UNCHANGED <<chapter_num, split_file, onlineVars, auditVars>>

\* process_chapter, lines 180-195: the split chapter is written
WriteChapter(io) ==
    /\ apc = "loop"
    /\ orig_passages = <<>>
    /\ split_file' = save_output(split_file,
                                 [chapter |-> [number |-> Str(chapter_num),
                                               passages |-> all_passages]], io)
    /\ apc' = IF io = "ok" THEN "written" ELSE "crashed"
    /\ UNCHANGED <<orig_passages, chapter_num, ref_counter, all_passages, zh_sentences,
                   en_sentences, new_passages, nCalls, onlineVars, auditVars>>

(* ------------------------- validate_translation ------------------------ *)
\* a target text that passes is_bad_translation, and one that does not
GoodEn == <<"T", "h", "e", " ", "M", "a", "s", "t", "e", "r">>
LogInEn == <<"L", "o", "g", " ", "i", "n", " ", "t", "o", " ",
             "c", "o", "n", "t", "i", "n", "u", "e">>

\* the pairs of a page whose target texts are ens
PairsOf(ens) == [i \in 1..Len(ens) |-> [zh |-> <<"U+7532">>, en |-> ens[i]]]

\* the target texts of up to c chapters with p passages at most in all
RECURSIVE TargetsOfChapters(_, _)
TargetsOfChapters(c, p) ==
    IF c = 0 THEN {<<>>}
    ELSE {<<>>} \cup
         UNION { { <<ens>> \o rest : ens \in [1..n -> {GoodEn, LogInEn}],
                                     rest \in TargetsOfChapters(c - 1, p - n) } :
                 n \in 0..p }

\* the documents of the multi-page work handed to the auditor: chapters of the
\* first pages of the catalog in order; a document edited by hand may hold a
\* chapter without passages
AuditDocs ==
    { [id |-> "analects",
       chapters |-> [j \in 1..Len(targets) |->
                        PageChapter(j, AnalectsChapters[j], PairsOf(targets[j]))]] :
      targets \in TargetsOfChapters(MaxChapters, MaxPassages) }

\* documents as complete runs of the assembler leave them, every page with one
\* pair whose target text is good or boilerplate
AssembledAnalects ==
    { [id |-> "analects",
       chapters |-> [j \in 1..NPages |->
                        PageChapter(j, TEXTS["analects"].chapters[j], PairsOf(<<ens[j]>>))]] :
      ens \in [1..NPages -> {GoodEn, LogInEn}] }

AssembledDaxue ==
    { [id |-> "daxue",
       chapters |-> <<SingleChapter(TEXTS["daxue"].titleEn, PairsOf(<<en>>))>>] :
      en \in {GoodEn, LogInEn} }

\* validate_translation, lines 105-106: open(path, "w") truncates the file,
\* then json.dump writes it
rewrite(file, data, io) ==
    IF io = "ok" THEN DocFile(data)
    ELSE IF io = "open_fails" THEN file
    ELSE Truncated

Audit_writes_without_fix(t, fix) ==
    /\ fix_mode' = fix
    /\ IF disk[t] = NoFile
       THEN /\ results' = FileNotFound(t)
            /\ disk' = disk
       ELSE IF ~IsDoc(disk[t])
            THEN /\ results' = AuditRaised(t)
                 /\ disk' = disk
            ELSE LET data == disk[t].doc
                     counts == BadCounts(data.chapters)
                     chapters_to_remove == ChaptersToRemove(data.chapters, counts, 1)
                 IN  IF chapters_to_remove # <<>>
                     THEN \E io \in IoOutcomes :
                            /\ disk' = [disk EXCEPT ![t] =
                                  rewrite(@, [data EXCEPT !.chapters =
                                                RemoveChapters(@, chapters_to_remove)], io)]
                            /\ results' =
                                 IF io = "ok"
                                 THEN Results(t, data.chapters, counts, chapters_to_remove, TRUE)
                                 ELSE AuditRaised(t)
                     ELSE /\ disk' = disk
                          /\ results' =
                               Results(t, data.chapters, counts, chapters_to_remove, FALSE)
    /\ UNCHANGED <<pc, runs, configVars, texts_to_scrape, output, chapters_to_scrape, passages,
                   exit_code, ended, fetchVars, transportHistory, fetchCalls, argv,
                   sessionHistory, fetchHistory, parserVars, alignerVars>>

\* validate_translation(text_id, fix), called by the auditor's main; an
\* exception of json.load or of the write is not caught
Audit(t, fix) ==
    /\ fix_mode' = fix
    /\ IF disk[t] = NoFile
       THEN /\ results' = FileNotFound(t)
            /\ disk' = disk
       ELSE IF ~IsDoc(disk[t])
            THEN /\ results' = AuditRaised(t)
                 /\ disk' = disk
            ELSE LET data == disk[t].doc
                     counts == BadCounts(data.chapters)
                     chapters_to_remove == ChaptersToRemove(data.chapters, counts, 1)
                 IN  IF fix /\ chapters_to_remove # <<>>
                     THEN \E io \in IoOutcomes :
                            /\ disk' = [disk EXCEPT ![t] =
                                  rewrite(@, [data EXCEPT !.chapters =
                                                RemoveChapters(@, chapters_to_remove)], io)]
                            /\ results' =
                                 IF io = "ok"
                                 THEN Results(t, data.chapters, counts, chapters_to_remove, TRUE)
                                 ELSE AuditRaised(t)
                     ELSE /\ disk' = disk
                          /\ results' =
                               Results(t, data.chapters, counts, chapters_to_remove, FALSE)
    /\ UNCHANGED <<pc, runs, configVars, texts_to_scrape, output, chapters_to_scrape, passages,
                   exit_code, ended, fetchVars, transportHistory, fetchCalls, argv,
                   sessionHistory, fetchHistory, parserVars, alignerVars>>

(* ------------------------------ histories ------------------------------ *)
\* a response was handled in this step
Responded == pc = "request" /\ pc' \in {"request", "loop"}

\* the call that handled it returned to main in this step
Returned == pc = "request" /\ pc' = "loop"

\* the record of the requests, responses and resets of one fetch_chapter call,
\* kept from the call to the next call or the end of the work
RecordCall ==
    IF Responded
    THEN /\ callLog' = Append(callLog, response')
         /\ callResets' = callResets + (resets' - resets)
         /\ callSessions' = IF pc' = "request"
                            THEN Append(callSessions, session'.id) ELSE callSessions
    ELSE IF pc' = "request"
         THEN /\ callLog' = <<>>
              /\ callResets' = 0
              /\ callSessions' = <<session'.id>>
         ELSE IF pc' = "loop" /\ pc = "loop"
              THEN UNCHANGED transportHistory
              ELSE /\ callLog' = <<>>
                   /\ callResets' = 0
                   /\ callSessions' = <<>>

\* no audit has been made
AuditorIdle ==
    /\ fix_mode = FALSE
    /\ results = NoResults

OfflineInit == AlignerIdle /\ AuditorIdle

Init == ParserInit /\ MainInit /\ HistoryInit /\ ConfigInit /\ OfflineInit

\* one parser instance fed event by event
ParserSpec == Init /\ [][ParserNext]_vars

CellSpec == Init /\ [][CellNext]_vars

\* the acquisition process, run after run
\* no history is recorded
Quiet ==
    UNCHANGED <<parserVars, transportHistory, argv, sessionHistory, fetchHistory, offlineVars>>

Next ==
    \/ \E args \in Selections : StartRun(args) /\ Quiet
    \/ BeginWork /\ Quiet
    \/ \E profile \in Profiles : CallFetch(profile) /\ Quiet
    \/ \E body \in Bodies : Respond200(body) /\ Quiet
    \/ \E profile \in Profiles : Respond403(profile) /\ Quiet
    \/ Respond404 /\ Quiet
    \/ RespondOtherStatus /\ Quiet
    \/ RespondTimeout /\ Quiet
    \/ RespondConnectionError /\ Quiet
    \/ RespondException /\ Quiet
    \/ \E io \in IoOutcomes : FinishWork(io) /\ Quiet
    \/ \E io \in IoOutcomes : Interrupt(io) /\ Quiet
    \/ Done /\ Quiet

Spec == Init /\ [][Next]_vars

\* one process run on an empty output directory, with each call recorded
TransportInit ==
    /\ ParserInit
    /\ HistoryInit
    /\ ConfigInit
    /\ OfflineInit
    /\ disk = [t \in TextIds |-> NoFile]
    /\ pc = "idle"
    /\ runs = MaxRuns - 1
    /\ texts_to_scrape = <<>>
    /\ output = NoOutput
    /\ chapters_to_scrape = <<>>
    /\ passages = <<>>
    /\ exit_code = -1
    /\ ended = ""
    /\ g_session = NoSession
    /\ session = NoSession
    /\ attempt = 0
    /\ response = NoResponse
    /\ nSessions = 0
    /\ resets = 0

CallRecorded ==
    RecordCall /\ UNCHANGED <<parserVars, argv, sessionHistory, fetchHistory, offlineVars>>

TransportNext ==
    \/ \E args \in Selections : StartRun(args) /\ CallRecorded
    \/ BeginWork /\ CallRecorded
    \/ \E profile \in Profiles : CallFetch(profile) /\ CallRecorded
    \/ \E body \in Bodies : Respond200(body) /\ CallRecorded
    \/ \E profile \in Profiles : Respond403(profile) /\ CallRecorded
    \/ Respond404 /\ CallRecorded
    \/ RespondOtherStatus /\ CallRecorded
    \/ RespondTimeout /\ CallRecorded
    \/ RespondConnectionError /\ CallRecorded
    \/ RespondException /\ CallRecorded
    \/ \E io \in IoOutcomes : FinishWork(io) /\ CallRecorded
    \/ \E io \in IoOutcomes : Interrupt(io) /\ CallRecorded
    \/ Done /\ CallRecorded

TransportSpec == TransportInit /\ [][TransportNext]_vars

\* one process run in which the environment answers every request: session.get
\* has a timeout
FairRunSpec == TransportInit /\ [][Next]_vars /\ WF_vars(Next)

\* three runs of the process, one after the other, on a directory with no file
ResumeInit ==
    /\ ParserInit
    /\ HistoryInit
    /\ ConfigInit
    /\ OfflineInit
    /\ disk = [t \in TextIds |-> NoFile]
    /\ pc = "idle"
    /\ runs = MaxRuns - 3
    /\ texts_to_scrape = <<>>
    /\ output = NoOutput
    /\ chapters_to_scrape = <<>>
    /\ passages = <<>>
    /\ exit_code = -1
    /\ ended = ""
    /\ g_session = NoSession
    /\ session = NoSession
    /\ attempt = 0
    /\ response = NoResponse
    /\ nSessions = 0
    /\ resets = 0

ResumeSpec == ResumeInit /\ [][Next]_vars

\* one run of the entry point on any command line, the command line kept
ArgsRecorded(args) ==
    /\ argv' = args
    /\ UNCHANGED <<parserVars, transportHistory, sessionHistory, fetchHistory, offlineVars>>

CommandNext ==
    \/ \E args \in CommandLines : StartRun(args) /\ ArgsRecorded(args)
    \/ BeginWork /\ Quiet
    \/ \E profile \in Profiles : CallFetch(profile) /\ Quiet
    \/ \E body \in Bodies : Respond200(body) /\ Quiet
    \/ \E profile \in Profiles : Respond403(profile) /\ Quiet
    \/ Respond404 /\ Quiet
    \/ RespondOtherStatus /\ Quiet
    \/ RespondTimeout /\ Quiet
    \/ RespondConnectionError /\ Quiet
    \/ RespondException /\ Quiet
    \/ \E io \in IoOutcomes : FinishWork(io) /\ Quiet
    \/ \E io \in IoOutcomes : Interrupt(io) /\ Quiet
    \/ Done /\ Quiet

CommandSpec == TransportInit /\ [][CommandNext]_vars

\* the sessions discarded, and the sessions requests are sent on: a step that
\* leaves the process waiting for a response has sent a request on the local
\* variable session
SessionsRecorded ==
    /\ discarded' =
         IF runs' # runs \/ pc' = "exited" THEN {}
         ELSE IF resets' > resets /\ g_session # NoSession
              THEN discarded \cup {g_session}
              ELSE discarded
    /\ sinceReset' =
         LET kept == IF runs' # runs \/ pc' = "exited" \/ resets' > resets
                     THEN {} ELSE sinceReset
         IN  IF pc' = "request" THEN kept \cup {session'} ELSE kept
    /\ UNCHANGED <<parserVars, transportHistory, argv, fetchHistory, offlineVars>>

SessionNext ==
    \/ \E args \in Selections : StartRun(args) /\ SessionsRecorded
    \/ BeginWork /\ SessionsRecorded
    \/ \E profile \in Profiles : CallFetch(profile) /\ SessionsRecorded
    \/ \E body \in Bodies : Respond200(body) /\ SessionsRecorded
    \/ \E profile \in Profiles : Respond403(profile) /\ SessionsRecorded
    \/ Respond404 /\ SessionsRecorded
    \/ RespondOtherStatus /\ SessionsRecorded
    \/ RespondTimeout /\ SessionsRecorded
    \/ RespondConnectionError /\ SessionsRecorded
    \/ RespondException /\ SessionsRecorded
    \/ \E io \in IoOutcomes : FinishWork(io) /\ SessionsRecorded
    \/ \E io \in IoOutcomes : Interrupt(io) /\ SessionsRecorded
    \/ Done /\ SessionsRecorded

SessionSpec == TransportInit /\ [][SessionNext]_vars

\* values of the module globals: each relay the module knows or none, and a
\* manual proxy or none
ProxyAddress == "1.2.3.4:8080"
RelayKey == "KEY"
Globals ==
    [scraping_service : {None, Some("scraperapi"), Some("scrapedo"), Some("zenrows")},
     api_key : {DefaultApiKey},
     use_proxy : BOOLEAN,
     proxy_list : {<<>>, <<ProxyAddress>>}]

\* main() called on the whole catalog with the module globals set by the
\* importing program
RelayNext ==
    \/ \E g \in Globals : Main(g, <<>>) /\ Quiet
    \/ BeginWork /\ Quiet
    \/ \E profile \in Profiles : CallFetch(profile) /\ Quiet
    \/ \E body \in Bodies : Respond200(body) /\ Quiet
    \/ \E profile \in Profiles : Respond403(profile) /\ Quiet
    \/ Respond404 /\ Quiet
    \/ RespondOtherStatus /\ Quiet
    \/ RespondTimeout /\ Quiet
    \/ RespondConnectionError /\ Quiet
    \/ RespondException /\ Quiet
    \/ \E io \in IoOutcomes : FinishWork(io) /\ Quiet
    \/ \E io \in IoOutcomes : Interrupt(io) /\ Quiet
    \/ Done /\ Quiet

RelaySpec == TransportInit /\ [][RelayNext]_vars

\* command lines with options before or after a selection of works
OptionFlags ==
    { <<>>, <<"--proxy", ProxyAddress>>, <<"--proxy">>, <<"--no-proxy">>,
      <<"--scraper-api", RelayKey>>, <<"--scrape-do", RelayKey>>,
      <<"--zenrows", RelayKey>>, <<"--zenrows">>,
      <<"--proxy", ProxyAddress, "--no-proxy">>,
      <<"--scrape-do", RelayKey, "--proxy", ProxyAddress>>,
      <<"--zenrows", RelayKey, "--scraper-api", RelayKey>> }

OptionLines ==
    { flags \o ids : flags \in OptionFlags, ids \in Selections }
        \cup { ids \o flags : flags \in OptionFlags, ids \in Selections }

\* one run of the program on a command line with options
OptionNext ==
    \/ \E args \in OptionLines : StartRun(args) /\ ArgsRecorded(args)
    \/ BeginWork /\ Quiet
    \/ \E profile \in Profiles : CallFetch(profile) /\ Quiet
    \/ \E body \in Bodies : Respond200(body) /\ Quiet
    \/ \E profile \in Profiles : Respond403(profile) /\ Quiet
    \/ Respond404 /\ Quiet
    \/ RespondOtherStatus /\ Quiet
    \/ RespondTimeout /\ Quiet
    \/ RespondConnectionError /\ Quiet
    \/ RespondException /\ Quiet
    \/ \E io \in IoOutcomes : FinishWork(io) /\ Quiet
    \/ \E io \in IoOutcomes : Interrupt(io) /\ Quiet
    \/ Done /\ Quiet

OptionSpec == TransportInit /\ [][OptionNext]_vars

\* the pages fetch_chapter is called for: the work and the entry of
\* chapters_to_scrape, in the process and in the pass over the current work
FetchesRecorded ==
    /\ fetchLog' =
         IF runs' # runs THEN <<>>
         ELSE IF pc = "loop" /\ pc' = "request"
              THEN Append(fetchLog, <<text_id, Head(chapters_to_scrape)>>)
              ELSE fetchLog
    /\ passLog' =
         IF runs' # runs \/ pc = "work" THEN <<>>
         ELSE IF pc = "loop" /\ pc' = "request"
              THEN Append(passLog, <<text_id, Head(chapters_to_scrape)>>)
              ELSE passLog
    /\ UNCHANGED <<parserVars, transportHistory, argv, sessionHistory, offlineVars>>

\* one run on any command line of known and unknown ids
PassNext ==
    \/ \E args \in CommandLines : StartRun(args) /\ FetchesRecorded
    \/ BeginWork /\ FetchesRecorded
    \/ \E profile \in Profiles : CallFetch(profile) /\ FetchesRecorded
    \/ \E body \in Bodies : Respond200(body) /\ FetchesRecorded
    \/ \E profile \in Profiles : Respond403(profile) /\ FetchesRecorded
    \/ Respond404 /\ FetchesRecorded
    \/ RespondOtherStatus /\ FetchesRecorded
    \/ RespondTimeout /\ FetchesRecorded
    \/ RespondConnectionError /\ FetchesRecorded
    \/ RespondException /\ FetchesRecorded
    \/ \E io \in IoOutcomes : FinishWork(io) /\ FetchesRecorded
    \/ \E io \in IoOutcomes : Interrupt(io) /\ FetchesRecorded
    \/ Done /\ FetchesRecorded

PassSpec == TransportInit /\ [][PassNext]_vars

\* command lines that select works, also one work twice
PassLines == Selections \cup { <<t, t>> : t \in TextIds }

FairPassNext ==
    \/ \E args \in PassLines : StartRun(args) /\ FetchesRecorded
    \/ BeginWork /\ FetchesRecorded
    \/ \E profile \in Profiles : CallFetch(profile) /\ FetchesRecorded
    \/ \E body \in Bodies : Respond200(body) /\ FetchesRecorded
    \/ \E profile \in Profiles : Respond403(profile) /\ FetchesRecorded
    \/ Respond404 /\ FetchesRecorded
    \/ RespondOtherStatus /\ FetchesRecorded
    \/ RespondTimeout /\ FetchesRecorded
    \/ RespondConnectionError /\ FetchesRecorded
    \/ RespondException /\ FetchesRecorded
    \/ \E io \in IoOutcomes : FinishWork(io) /\ FetchesRecorded
    \/ \E io \in IoOutcomes : Interrupt(io) /\ FetchesRecorded
    \/ Done /\ FetchesRecorded

\* one run in which every step that can be taken is taken in the end: a
\* request is answered within its timeout and main has no other wait
FairPassSpec == TransportInit /\ [][FairPassNext]_vars /\ WF_vars(FairPassNext)

\* align_passages called by a caller that threads the counter, from any start
AlignInit ==
    /\ ParserInit
    /\ MainInit
    /\ HistoryInit
    /\ ConfigInit
    /\ AuditorIdle
    /\ apc = "loop"
    /\ orig_passages = <<>>
    /\ chapter_num \in ChapterNums
    /\ ref_counter \in 1..MaxStart
    /\ all_passages = <<>>
    /\ zh_sentences = <<>>
    /\ en_sentences = <<>>
    /\ new_passages = <<>>
    /\ nCalls = 0
    /\ split_file = NoFile

AlignNext == \E zh \in ZhLists, en \in EnLists : AlignCall(zh, en)

AlignSpec == AlignInit /\ [][AlignNext]_vars

\* one process that builds chapters: a run of the assembler, or process_chapter
ChapterNext ==
    \/ \E args \in Selections : StartRun(args) /\ Quiet /\ AlignerIdle
    \/ BeginWork /\ Quiet
    \/ \E profile \in Profiles : CallFetch(profile) /\ Quiet
    \/ \E body \in Bodies : Respond200(body) /\ Quiet
    \/ \E profile \in Profiles : Respond403(profile) /\ Quiet
    \/ Respond404 /\ Quiet
    \/ RespondOtherStatus /\ Quiet
    \/ RespondTimeout /\ Quiet
    \/ RespondConnectionError /\ Quiet
    \/ RespondException /\ Quiet
    \/ \E io \in IoOutcomes : FinishWork(io) /\ Quiet
    \/ \E io \in IoOutcomes : Interrupt(io) /\ Quiet
    \/ Done /\ Quiet
    \/ /\ pc = "idle"
       /\ apc = "idle"
       /\ \E file \in ChapterFiles, n \in ChapterNums : ProcessChapter(file, n)
    \/ ProcessPassage
    \/ \E io \in IoOutcomes : WriteChapter(io)

ChapterSpec == TransportInit /\ [][ChapterNext]_vars

\* the auditor run on a document of the multi-page work
AuditInit ==
    /\ ParserInit
    /\ HistoryInit
    /\ ConfigInit
    /\ OfflineInit
    /\ disk \in { [analects |-> f, daxue |-> NoFile] :
                  f \in {NoFile} \cup { DocFile(d) : d \in AuditDocs } }
    /\ pc = "idle"
    /\ runs = 0
    /\ texts_to_scrape = <<>>
    /\ output = NoOutput
    /\ chapters_to_scrape = <<>>
    /\ passages = <<>>
    /\ exit_code = -1
    /\ ended = ""
    /\ g_session = NoSession
    /\ session = NoSession
    /\ attempt = 0
    /\ response = NoResponse
    /\ nSessions = 0
    /\ resets = 0

AuditNext == \E t \in TextIds, fix \in BOOLEAN : Audit(t, fix)

AuditSpec == AuditInit /\ [][AuditNext]_vars

\* the auditor is run on one of the documents the assembler left, then the
\* assembler runs once more
ReacquireInit ==
    /\ ParserInit
    /\ HistoryInit
    /\ ConfigInit
    /\ OfflineInit
    /\ disk \in { [analects |-> DocFile(a), daxue |-> d] :
                  a \in AssembledAnalects,
                  d \in {NoFile} \cup { DocFile(x) : x \in AssembledDaxue } }
    /\ pc = "idle"
    /\ runs = MaxRuns - 1
    /\ texts_to_scrape = <<>>
    /\ output = NoOutput
    /\ chapters_to_scrape = <<>>
    /\ passages = <<>>
    /\ exit_code = -1
    /\ ended = ""
    /\ g_session = NoSession
    /\ session = NoSession
    /\ attempt = 0
    /\ response = NoResponse
    /\ nSessions = 0
    /\ resets = 0

ReacquireNext ==
    \/ /\ pc = "idle"
       /\ results = NoResults
       /\ \E t \in TextIds, fix \in BOOLEAN : Audit(t, fix)
    \/ \E args \in Selections : StartRun(args) /\ Quiet
    \/ BeginWork /\ Quiet
    \/ \E profile \in Profiles : CallFetch(profile) /\ Quiet
    \/ \E body \in Bodies : Respond200(body) /\ Quiet
    \/ \E profile \in Profiles : Respond403(profile) /\ Quiet
    \/ Respond404 /\ Quiet
    \/ RespondOtherStatus /\ Quiet
    \/ RespondTimeout /\ Quiet
    \/ RespondConnectionError /\ Quiet
    \/ RespondException /\ Quiet
    \/ \E io \in IoOutcomes : FinishWork(io) /\ Quiet
    \/ \E io \in IoOutcomes : Interrupt(io) /\ Quiet
    \/ Done /\ Quiet

ReacquireSpec == ReacquireInit /\ [][ReacquireNext]_vars

(* ------------------------------ properties ----------------------------- *)
ChaptersOf(f) == f.doc.chapters

NumbersDistinct(chs) ==
    \A j, k \in 1..Len(chs) : j # k => ParseInt(chs[j].number) # ParseInt(chs[k].number)

SortedAscending(chs) ==
    \A j \in 1..(Len(chs) - 1) : ParseInt(chs[j].number) < ParseInt(chs[j + 1].number)

InSeq(x, seq) == \E k \in 1..Len(seq) : seq[k] = x

\* the document of t holds what makes main skip the work
AllPresent(t) ==
    /\ IsDoc(disk[t])
    /\ IF TEXTS[t].chapters = None
       THEN /\ ChaptersOf(disk[t]) # <<>>
            /\ ChaptersOf(disk[t])[1].passages # <<>>
       ELSE \A i \in 1..Len(TEXTS[t].chapters) :
                \E k \in 1..Len(ChaptersOf(disk[t])) :
                    /\ HasSlug(ChaptersOf(disk[t])[k])
                    /\ ChaptersOf(disk[t])[k].slug = TEXTS[t].chapters[i]

Statuses(log) == [k \in 1..Len(log) |-> log[k].status]

FailureStatuses == {"403", "500", "timeout", "connection_error", "exception"}

\* C1: every pair in the extractor's passage list has a non-empty trimmed
\* source text and a non-empty trimmed target text, whatever events were fed
C1_PairsNonEmpty ==
    \A k \in 1..Len(parser.passages) :
        /\ Strip(parser.passages[k].zh) # <<>>
        /\ Strip(parser.passages[k].en) # <<>>

\* a pair was emitted after more events than one pair needs
C1_Witness ==
    /\ Len(parser.passages) >= 1
    /\ nEvents > 6

C3_ResumeIdempotent ==
    [][(pc = "work" /\ texts_to_scrape # <<>> /\ AllPresent(text_id))
        => /\ disk' = disk
           /\ pc' = "work"
           /\ texts_to_scrape' = Tail(texts_to_scrape)
           /\ fetchCalls' = fetchCalls
           /\ nSessions' = nSessions]_vars

\* a later run found its works complete and ended without a fetch
C3_Witness ==
    /\ ended = "done"
    /\ runs >= 2
    /\ fetchCalls = 0
    /\ \E t \in TextIds : AllPresent(t)

\* C4: a written document holds every chapter of the document it replaces,
\* unchanged; what it adds are chapters of slugs that were missing; and no
\* fetch is started for a slug the document on disk holds
C4_ResumePreserves ==
    /\ [][\A t \in TextIds :
            (IsDoc(disk[t]) /\ IsDoc(disk'[t]))
                => /\ \A k \in 1..Len(ChaptersOf(disk[t])) :
                          InSeq(ChaptersOf(disk[t])[k], ChaptersOf(disk'[t]))
                   /\ \A k \in 1..Len(ChaptersOf(disk'[t])) :
                          \/ InSeq(ChaptersOf(disk'[t])[k], ChaptersOf(disk[t]))
                          \/ ~\E j \in 1..Len(ChaptersOf(disk[t])) :
                                 /\ HasSlug(ChaptersOf(disk[t])[j])
                                 /\ HasSlug(ChaptersOf(disk'[t])[k])
                                 /\ ChaptersOf(disk[t])[j].slug = ChaptersOf(disk'[t])[k].slug]_vars
    /\ [][(pc = "loop" /\ pc' = "request" /\ IsDoc(disk[text_id])
           /\ Head(chapters_to_scrape) # None)
            => ~\E j \in 1..Len(ChaptersOf(disk[text_id])) :
                   /\ HasSlug(ChaptersOf(disk[text_id])[j])
                   /\ ChaptersOf(disk[text_id])[j].slug = Head(chapters_to_scrape)[2]]_vars

\* a run resumed a document that has chapters and appended one more
C4_Witness ==
    /\ pc = "loop"
    /\ IsDoc(disk[text_id])
    /\ Len(ChaptersOf(disk[text_id])) >= 1
    /\ Len(output.chapters) > Len(ChaptersOf(disk[text_id]))

\* C5 as stated: an interrupt during the loop saves the document with every
\* chapter appended so far and every chapter persisted before, and the
\* process exits with code 0
C5_InterruptSavesAndExitsZero ==
    [][(pc \in {"loop", "request"} /\ ended' = "interrupt")
        => /\ exit_code' = 0
           /\ IsDoc(disk'[text_id])
           /\ \A k \in 1..Len(output.chapters) :
                  InSeq(output.chapters[k], ChaptersOf(disk'[text_id]))
           /\ IsDoc(disk[text_id]) =>
                  \A k \in 1..Len(ChaptersOf(disk[text_id])) :
                      InSeq(ChaptersOf(disk[text_id])[k], ChaptersOf(disk'[text_id]))]_vars

\* C5 amended: the same, unless the interrupt save fails with an I/O error;
\* then the process exits with a failure code and no document is written
C5_InterruptSavesUnlessIoError ==
    [][(pc \in {"loop", "request"} /\ ended' = "interrupt")
        => \/ /\ exit_code' = 0
              /\ IsDoc(disk'[text_id])
              /\ \A k \in 1..Len(output.chapters) :
                     InSeq(output.chapters[k], ChaptersOf(disk'[text_id]))
              /\ IsDoc(disk[text_id]) =>
                     \A k \in 1..Len(ChaptersOf(disk[text_id])) :
                         InSeq(ChaptersOf(disk[text_id])[k], ChaptersOf(disk'[text_id]))
           \/ /\ exit_code' = 1
              /\ disk'[text_id] \in {disk[text_id], Truncated}]_vars

\* the first run was interrupted in the multi-page work and its interrupt save
\* wrote a chapter
C5_Witness ==
    /\ ended = "interrupt"
    /\ exit_code = 0
    /\ runs = 1
    /\ disk["daxue"] = NoFile
    /\ IsDoc(disk["analects"])
    /\ Len(ChaptersOf(disk["analects"])) >= 1

\* C6: a save that fails with an I/O error leaves the document that was on
\* disk before it as it was
C6_FailedSaveLeavesSnapshot ==
    [][(ended' = "io_error" \/ (ended' = "interrupt" /\ exit_code' = 1))
        => \A t \in TextIds : IsDoc(disk[t]) => disk'[t] = disk[t]]_vars

\* the chapter main builds for the page pg from the passages ps
BuiltFrom(t, pg, ps) ==
    IF pg = None
    THEN SingleChapter(TEXTS[t].titleEn, ps)
    ELSE PageChapter(pg[1], pg[2], ps)

\* C7: every chapter persisted or held in memory has passages; a chapter
\* enters the document in memory only when a call returns the non-empty
\* passages of a 200 response, as the whole chapter built from them, and a call
\* that ends otherwise, a request in flight and an interrupt add none; a file
\* changes only to the chapters held in memory or to a failed write
C7_OnlyWholeFetchedChapters ==
    /\ [](/\ \A t \in TextIds : IsDoc(disk[t]) =>
                \A k \in 1..Len(ChaptersOf(disk[t])) :
                    ChaptersOf(disk[t])[k].passages # <<>>
          /\ \A k \in 1..Len(output.chapters) : output.chapters[k].passages # <<>>)
    /\ [][(pc = "request" /\ pc' = "loop")
            => IF response'.status = "200" /\ ParsedPage(response'.body) # <<>>
               THEN output'.chapters =
                      Append(output.chapters,
                             BuiltFrom(text_id, Head(chapters_to_scrape),
                                       ParsedPage(response'.body)))
               ELSE output' = output]_vars
    /\ [][(pc' = "request") => output' = output]_vars
    /\ [][(pc = "work" /\ pc' = "loop")
            => output'.chapters =
                 IF IsDoc(disk[text_id]) THEN ChaptersOf(disk[text_id]) ELSE <<>>]_vars
    /\ [][\A t \in TextIds :
            disk'[t] # disk[t]
                => \/ disk'[t] = Truncated
                   \/ /\ IsDoc(disk'[t])
                      /\ t = text_id
                      /\ \A k \in 1..Len(ChaptersOf(disk'[t])) :
                             InSeq(ChaptersOf(disk'[t])[k], output.chapters)]_vars

\* the first run made two calls for the multi-page work and was interrupted;
\* its interrupt save wrote the one chapter a call had returned
C7_Witness ==
    /\ ended = "interrupt"
    /\ exit_code = 0
    /\ runs = 1
    /\ fetchCalls = 2
    /\ disk["daxue"] = NoFile
    /\ IsDoc(disk["analects"])
    /\ Len(ChaptersOf(disk["analects"])) = 1

\* C8: a call answered 403 and then 200 returns the passages of the 200
\* response, made exactly one session reset, and sent the retry on the session
\* created after the reset
C8_RetryAfter403 ==
    (pc = "loop" /\ Statuses(callLog) = <<"403", "200">>)
        => /\ passages = Feed(callLog[2].body)
           /\ callLog[2].body = PageOnePair =>
                  passages = << [zh |-> <<"z">>, en |-> <<"e">>] >>
           /\ callResets = 1
           /\ Len(callSessions) = 2
           /\ callSessions[2] > callSessions[1]
           /\ g_session.id = callSessions[2]

\* a call answered 403 and then 200 returned passages
C8_Witness ==
    /\ pc = "loop"
    /\ Statuses(callLog) = <<"403", "200">>
    /\ passages # <<>>

\* C9: a 404 is the last response of its call: the call has ended with no
\* passages, sent no request after it, and made no reset because of it
C9_NotFoundEndsCall ==
    \A k \in 1..Len(callLog) :
        callLog[k].status = "404"
            => /\ k = Len(callLog)
               /\ pc = "loop"
               /\ passages = <<>>
               /\ Len(callSessions) = k
               /\ callResets =
                    Cardinality({j \in 1..(k - 1) :
                                   callLog[j].status \in {"403", "connection_error"}})

\* a call ended by a 404 on its first request, with attempts left
C9_Witness ==
    /\ pc = "loop"
    /\ Statuses(callLog) = <<"404">>
    /\ Len(callLog) < Retries

\* C10: a call sends at most Retries requests, one per attempt, and then ends;
\* a call whose last attempt failed has used them all and returns no passages
\* to main, which adds no chapter and goes on; and every call starts at
\* attempt 0
C10_BoundedAttempts ==
    /\ [](pc = "request" => attempt < Retries)
    /\ [][(pc = "request" /\ pc' = "request") => attempt' = attempt + 1]_vars
    /\ [][(pc = "request" /\ pc' = "loop" /\ response'.status \in FailureStatuses)
            => /\ attempt = Retries - 1
               /\ passages' = <<>>
               /\ output' = output
               /\ chapters_to_scrape' = Tail(chapters_to_scrape)]_vars
    /\ [][(pc # "request" /\ pc' = "request") => attempt' = 0]_vars
    /\ (pc = "request") ~> (pc # "request")

\* the second call of a run failed on its last attempt and returned to main
C10_Witness ==
    /\ pc = "loop"
    /\ fetchCalls = 2
    /\ response.status \in FailureStatuses
    /\ passages = <<>>

\* the passage index a ref ends with: the digits behind its last colon
RECURSIVE RefIndexDigits(_)
RefIndexDigits(ref) ==
    IF ref = <<>> \/ ref[Len(ref)] = ":" THEN <<>>
    ELSE Append(RefIndexDigits(SubSeq(ref, 1, Len(ref) - 1)), ref[Len(ref)])

RefIndex(ref) == ParseInt(RefIndexDigits(ref))

\* the refs of a passage list are pairwise distinct and their indices grow
RefsIncreasing(ps) ==
    \A j, k \in 1..Len(ps) :
        j < k => (ps[j].ref # ps[k].ref /\ RefIndex(ps[j].ref) < RefIndex(ps[k].ref))

\* C11: in every chapter the refs are pairwise distinct and strictly
\* increasing in emission order: the chapters the assembler holds and writes,
\* and the passages process_chapter gathers over its coarse passages and writes
C11_RefsDistinctAndIncreasing ==
    /\ \A t \in TextIds : IsDoc(disk[t]) =>
           \A k \in 1..Len(ChaptersOf(disk[t])) :
               RefsIncreasing(ChaptersOf(disk[t])[k].passages)
    /\ \A k \in 1..Len(output.chapters) : RefsIncreasing(output.chapters[k].passages)
    /\ RefsIncreasing(all_passages)
    /\ IsDoc(split_file) => RefsIncreasing(split_file.doc.chapter.passages)

\* process_chapter wrote a chapter whose passages came from two calls
C11_Witness ==
    /\ apc = "written"
    /\ nCalls = 2
    /\ IsDoc(split_file)
    /\ Len(split_file.doc.chapter.passages) = 2
    /\ split_file.doc.chapter.passages[2].ref = Ref(chapter_num, 2)

\* an align_passages call was made in this step
Called == nCalls' = nCalls + 1

\* the smaller of two counts
Min(a, b) == IF a < b THEN a ELSE b

\* C12: a call with two lists of the same length m > 0 returns m passages, the
\* i-th pairing the i-th source with the i-th target sentence, unchanged, with
\* the refs <chapter>:<start> .. <chapter>:<start + m - 1>; for 3 sentences,
\* chapter 1 and start 1 these are "1:1", "1:2", "1:3"
C12_EqualCountsPairInOrder ==
    [][(Called /\ Len(zh_sentences') = Len(en_sentences') /\ Len(zh_sentences') > 0)
        => /\ Len(new_passages') = Len(zh_sentences')
           /\ \A i \in 1..Len(new_passages') :
                 /\ new_passages'[i].zh = zh_sentences'[i]
                 /\ new_passages'[i].en = en_sentences'[i]
                 /\ new_passages'[i].ref
                      = Str(chapter_num) \o <<":">> \o Str(ref_counter + i - 1)
           /\ (chapter_num = 1 /\ ref_counter = 1 /\ Len(zh_sentences') = 3)
                 => [i \in 1..3 |-> new_passages'[i].ref]
                      = << <<"1", ":", "1">>, <<"1", ":", "2">>, <<"1", ":", "3">> >>]_vars

\* three source and three target sentences were aligned in chapter 1 from 1
C12_Witness ==
    /\ nCalls >= 1
    /\ Len(zh_sentences) = 3
    /\ Len(en_sentences) = 3
    /\ chapter_num = 1
    /\ Len(new_passages) = 3
    /\ new_passages[3].ref = <<"1", ":", "3">>

C14_DivergenceKeepsOnePassage ==
    [][(Called /\ Len(zh_sentences') > 0 /\ Len(en_sentences') > 0
          /\ (Len(zh_sentences') >= Len(en_sentences') + 2
              \/ Len(en_sentences') >= Len(zh_sentences') + 2))
        => /\ Len(new_passages') = 1
           /\ new_passages'[1].zh = Join(<<>>, zh_sentences')
           /\ new_passages'[1].en = Join(<<" ">>, en_sentences')]_vars

\* one source sentence was aligned with three target sentences
C14_Witness ==
    /\ nCalls >= 1
    /\ Len(zh_sentences) = 1
    /\ Len(en_sentences) = 3
    /\ Len(new_passages) = 1
    /\ new_passages[1].en
         = <<"A", ".", " ", "B", " ", "b", ".", " ", "C", ".">>

\* C15: a call with two empty lists returns nothing; with only the source
\* empty, one passage of empty source and the space-joined target; with only
\* the target empty, one passage of the concatenated source and empty target
C15_EmptySides ==
    [][(Called /\ (Len(zh_sentences') = 0 \/ Len(en_sentences') = 0))
        => IF Len(zh_sentences') = 0 /\ Len(en_sentences') = 0
           THEN new_passages' = <<>>
           ELSE /\ Len(new_passages') = 1
                /\ IF Len(zh_sentences') = 0
                   THEN /\ new_passages'[1].zh = <<>>
                        /\ new_passages'[1].en = Join(<<" ">>, en_sentences')
                   ELSE /\ new_passages'[1].zh = Join(<<>>, zh_sentences')
                        /\ new_passages'[1].en = <<>>]_vars

\* a call with no source sentence and several target sentences returned one
\* passage, after a call with no sentence at all had returned nothing
C15_Witness ==
    /\ nCalls = 2
    /\ Len(all_passages) = 1
    /\ zh_sentences = <<>>
    /\ Len(en_sentences) >= 2
    /\ Len(new_passages) = 1
    /\ new_passages[1].zh = <<>>

\* C16: the k passages of a call carry the refs <chapter>:<start>, ...,
\* <chapter>:<start + k - 1> in order, and the call returns start + k
C16_SequentialRefs ==
    [][Called
        => /\ \A i \in 1..Len(new_passages') :
                 new_passages'[i].ref
                    = Str(chapter_num) \o <<":">> \o Str(ref_counter + i - 1)
           /\ ref_counter' = ref_counter + Len(new_passages')]_vars

\* a second call that started behind the passages of the first returned
\* several passages
C16_Witness ==
    /\ nCalls = 2
    /\ Len(new_passages) >= 2
    /\ Len(all_passages) > Len(new_passages)
    /\ ref_counter = MaxStart + Len(all_passages)

\* the suspect passages of a chapter, counted one by one
Suspects(ps) == Cardinality({ i \in 1..Len(ps) : is_bad_translation(ps[i].en) })

\* the chapter has an entry in results["bad_chapters"]
Flagged(r, chapter) ==
    \E j \in 1..Len(r.bad_chapters) : r.bad_chapters[j].number = chapter.number

\* validate_translation handed back results for the document on disk
Audited == results' # results /\ results'.kind = "results"

\* C17: the auditor flags a chapter exactly when more than half of its
\* passages are suspect: three of four are flagged; one of four, and exactly
\* half, are not; a chapter without passages never is
C17_BadChapterThreshold ==
    [][Audited
        => LET chapters == ChaptersOf(disk[results'.text_id])
           IN  \A k \in 1..Len(chapters) :
                 Flagged(results', chapters[k])
                    <=> /\ chapters[k].passages # <<>>
                        /\ 2 * Suspects(chapters[k].passages) > Len(chapters[k].passages)]_vars

\* an audit of a document with a chapter of four passages, three suspect, and
\* a chapter without passages flagged the first and not the second
C17_Witness ==
    /\ results.kind = "results"
    /\ results.total_chapters = 2
    /\ results.total_passages = 4
    /\ Len(results.bad_chapters) = 1
    /\ results.bad_chapters[1].bad_passages = 3
    /\ results.bad_chapters[1].total_passages = 4

\* more than half of the chapter's passages are suspect
BadChapter(chapter) ==
    /\ chapter.passages # <<>>
    /\ 2 * Suspects(chapter.passages) > Len(chapter.passages)

NotBadChapter(chapter) == ~BadChapter(chapter)

\* validate_translation rewrote the document in fix mode
Fixed == Audited /\ results'.fixed

\* C18: the document rewritten in fix mode holds exactly the chapters that
\* were not flagged, unchanged and in their original order, wherever and
\* however many the flagged chapters are
C18_FixKeepsExactlyGoodChapters ==
    [][Fixed
        => LET t == results'.text_id
           IN  /\ IsDoc(disk'[t])
               /\ disk'[t].doc.id = disk[t].doc.id
               /\ ChaptersOf(disk'[t]) = SelectSeq(ChaptersOf(disk[t]), NotBadChapter)
               /\ \A k \in 1..Len(ChaptersOf(disk'[t])) :
                     ~BadChapter(ChaptersOf(disk'[t])[k])]_vars

\* a fix removed the first two chapters of three and kept the third, which
\* has a suspect passage among its passages
C18_Witness ==
    /\ results.kind = "results"
    /\ results.fixed
    /\ results.total_chapters = 3
    /\ results.chapters_removed = 2
    /\ results.bad_chapters[1].number = Str(1)
    /\ results.bad_chapters[2].number = Str(2)
    /\ IsDoc(disk["analects"])
    /\ Len(ChaptersOf(disk["analects"])) = 1
    /\ ChaptersOf(disk["analects"])[1].number = Str(3)
    /\ Suspects(ChaptersOf(disk["analects"])[1].passages) = 1

\* the slugs of a chapter list
SlugsOf(chapters) == { SlugOf(chapters[k]) : k \in 1..Len(chapters) }

\* the slugs of the pages main has decided to fetch
PagesToFetch(pages) == { pages[k][2] : k \in 1..Len(pages) }

\* the last thing the auditor did was a fix of the current work's document,
\* and the assembler has not written it since
FixedBefore ==
    /\ texts_to_scrape # <<>>
    /\ results.kind = "results"
    /\ results.fixed
    /\ results.text_id = text_id

\* C19: after a fix removed flagged chapters from a work's document, the next
\* run over that work decides to fetch the pages of the removed slugs (the
\* one page of a single-page work) and none of the slugs left in the document,
\* and those pages are what it asks fetch_chapter for
C19_RemovedChaptersFetchedAgain ==
    [][/\ (FixedBefore /\ pc = "work" /\ <<pc, texts_to_scrape>>' # <<pc, texts_to_scrape>>)
          => /\ pc' = "loop"
             /\ UNCHANGED texts_to_scrape
             /\ IF IsSinglePage(info)
                THEN chapters_to_scrape' = <<None>>
                ELSE /\ SlugsOf(results.bad_chapters) \subseteq PagesToFetch(chapters_to_scrape')
                     /\ PagesToFetch(chapters_to_scrape') \cap SlugsOf(ChaptersOf(disk[text_id])) = {}
       /\ (FixedBefore /\ pc = "loop" /\ pc' = "request")
          => IF IsSinglePage(info)
             THEN /\ Head(chapters_to_scrape) = None
                  /\ fetchCalls' = fetchCalls + 1
             ELSE /\ Head(chapters_to_scrape)[2] \notin SlugsOf(ChaptersOf(disk[text_id]))
                  /\ fetchCalls' = fetchCalls + 1]_vars

\* the run after a fix that removed the first chapter and kept the second
\* has asked for the first page and for no other
C19_Witness ==
    /\ FixedBefore
    /\ text_id = "analects"
    /\ results.chapters_removed = 1
    /\ results.bad_chapters[1].slug = AnalectsChapters[1]
    /\ pc = "request"
    /\ fetchCalls = 1
    /\ chapters_to_scrape = << <<1, AnalectsChapters[1]>> >>
    /\ SlugsOf(ChaptersOf(disk["analects"])) = {AnalectsChapters[2]}

\* the run after a fix that emptied the single-page work's document has asked
\* for its page
C19_WitnessSinglePage ==
    /\ FixedBefore
    /\ text_id = "daxue"
    /\ ChaptersOf(disk["daxue"]) = <<>>
    /\ pc = "request"
    /\ fetchCalls = 1

\* the command line names an id that is not in the catalog
RequestsUnknownId == \E k \in 1..Len(argv) : ~InCatalog(argv[k])

\* C20: a process whose command line names an id that is not in the catalog
\* ends with a failure code (an interrupted process, which by design ends
\* with the success code, set aside)
C20_UnknownIdExitsWithFailure ==
    (pc = "exited" /\ ended # "interrupt" /\ RequestsUnknownId) => exit_code # 0

\* what the code does instead: it fails when no requested id is in the catalog
C20_AllUnknownExitsWithFailure ==
    (pc = "exited" /\ argv # <<>> /\ \A k \in 1..Len(argv) : ~InCatalog(argv[k]))
        => (exit_code = 1 /\ ended = "unknown_texts" /\ fetchCalls = 0)

\* C21: the extractor is never in the source-cell mode and in the target-cell
\* mode at once, whatever tag events it is fed
C21_CaptureModesExclusive == ~(parser.in_ctext_td /\ parser.in_etext_td)

Markers == {"ctext", "etext"}

\* the td element a </td> closes matches neither marker
ClosesUnmarkedCell ==
    /\ Len(cells') < Len(cells)
    /\ cells[Len(cells)] \notin Markers

\* C22: the close of a cell that matches neither marker, nested inside a
\* source or target cell, ends no capture: both modes are as they were, and
\* the buffers go on accumulating
C22_NestedCloseKeepsCapture ==
    [][ClosesUnmarkedCell
        => /\ parser'.in_ctext_td = parser.in_ctext_td
           /\ parser'.in_etext_td = parser.in_etext_td]_vars

Last(s) == s[Len(s)]

\* C23: of the source cells with text that close with no pair emitted in
\* between, the last is the pending source, and every pair emitted carries the
\* text of the last source cell closed before it and none of the earlier ones
C23_LastSourceSurvives ==
    /\ Len(emitted_from) = Len(parser.passages)
    /\ \A k \in 1..Len(parser.passages) :
          /\ emitted_from[k] # <<>>
          /\ parser.passages[k].zh = Last(emitted_from[k])
    /\ parser.pending_zh = None <=> unpaired = <<>>
    /\ unpaired # <<>> => Get(parser.pending_zh) = Last(unpaired)

\* two source cells with different texts closed, then a target cell: the one
\* pair emitted carries the second text
C23_Witness ==
    /\ Len(parser.passages) = 1
    /\ Len(emitted_from[1]) = 2
    /\ emitted_from[1][1] # emitted_from[1][2]
    /\ parser.passages[1].zh = emitted_from[1][2]

\* the extractor leaves the target-cell mode
ExitsTargetMode == parser.in_etext_td /\ ~parser'.in_etext_td

\* C24: leaving the target-cell mode appends exactly one pair and clears the
\* pending source when there is a pending source and the trimmed target
\* buffer is not empty, and else leaves the pairs and the pending source as
\* they were; no other event emits a pair, and every pair consumes a source
\* cell closed since the pair before it
C24_EmitOnTargetClose ==
    /\ [][ExitsTargetMode
            => LET en == Strip(parser.current_en)
               IN  IF parser.pending_zh # None /\ en # <<>>
                   THEN /\ parser'.passages =
                             Append(parser.passages,
                                    [zh |-> Get(parser.pending_zh), en |-> en])
                        /\ parser'.pending_zh = None
                   ELSE /\ parser'.passages = parser.passages
                        /\ parser'.pending_zh = parser.pending_zh]_vars
    /\ [][parser'.passages # parser.passages => ExitsTargetMode]_vars
    /\ [][Len(parser'.passages) > Len(parser.passages)
            => (unpaired # <<>> /\ unpaired' = <<>>)]_vars

\* a pair was emitted and cleared the pending source, and a later target cell
\* closed with no pending source and emitted nothing
C24_Witness ==
    /\ Len(parser.passages) = 1
    /\ parser.pending_zh = None
    /\ unpaired = <<>>
    /\ cells = <<>>
    /\ Strip(parser.current_en) # <<>>
    /\ Strip(parser.current_en) # parser.passages[1].en
    /\ ~parser.in_etext_td
    /\ ~parser.in_ctext_td

ResetStatuses == {"403", "connection_error"}

C26_NoRequestOnDiscardedSession ==
    pc = "request" => session \notin discarded

\* what the code keeps: the request that opens a call is sent on a session
\* that no reset has discarded, and the retry after a 403 on a new one
C26_NewCallAndRetryAfter403OnLiveSession ==
    [][/\ (pc = "loop" /\ pc' = "request") => session' \notin discarded
       /\ (Responded /\ response'.status = "403" /\ pc' = "request")
             => (session' \notin discarded' /\ session' = g_session')]_vars

\* C27: between two resets every request of the run is sent on one session,
\* with one profile, and at most one session exists at any time
C27_OneSessionBetweenResets ==
    /\ Cardinality(sinceReset) <= 1
    /\ Cardinality({g_session, session} \ {NoSession}) <= 1

\* the entries of a fetch log are pairwise different
NoPageTwice(log) == \A j, k \in 1..Len(log) : j # k => log[j] # log[k]

\* the pages of one work are fetched in catalog order
InCatalogOrder(log) ==
    \A j, k \in 1..Len(log) :
        (j < k /\ log[j][1] = log[k][1] /\ log[j][2] # None /\ log[k][2] # None)
            => /\ log[j][2][1] < log[k][2][1]
               /\ TEXTS[log[j][1]].chapters[log[j][2][1]] = log[j][2][2]

\* a chapter made from the page at catalog position i has number i and the
\* refs "i:1", ..., "i:k"
NumberedByPosition(t, chapter) ==
    HasSlug(chapter)
        => \E i \in 1..Len(TEXTS[t].chapters) :
              /\ TEXTS[t].chapters[i] = chapter.slug
              /\ chapter.number = Str(i)
              /\ \A j \in 1..Len(chapter.passages) :
                    chapter.passages[j].ref = Str(i) \o <<":">> \o Str(j)

ChaptersNumberedByPosition ==
    /\ \A t \in TextIds : IsDoc(disk[t]) =>
          \A k \in 1..Len(ChaptersOf(disk[t])) : NumberedByPosition(t, ChaptersOf(disk[t])[k])
    /\ pc \in {"loop", "request"} =>
          \A k \in 1..Len(output.chapters) : NumberedByPosition(text_id, output.chapters[k])

\* C30: in a run the pages of a work are fetched in the order of the catalog,
\* each at most once, and a chapter made from the page at position i has
\* number i and refs "i:1" to "i:k"
C30_PagesInOrderOncePerRun ==
    /\ NoPageTwice(fetchLog)
    /\ InCatalogOrder(fetchLog)
    /\ ChaptersNumberedByPosition

\* what the code keeps: the same in every pass over a work
C30_PagesInOrderOncePerPass ==
    /\ NoPageTwice(passLog)
    /\ InCatalogOrder(passLog)
    /\ ChaptersNumberedByPosition

\* the page whose request is in flight
Target == PageUrl(text_id, Head(chapters_to_scrape))

\* the endpoint of each relay
RelayEndpoint ==
    [scraperapi |-> ScraperApiUrl, scrapedo |-> ScrapeDoUrl, zenrows |-> ZenRowsUrl]

\* the manual proxy that is selected, if any
SelectedProxy ==
    IF g_use_proxy /\ g_proxy_list # <<>> THEN Some(g_proxy_list[1]) ELSE None

\* the parent path of each page URL of the catalog
ParentOf(t, entry) ==
    IF entry = None
    THEN <<"h","t","t","p","s",":","/","/","c","t","e","x","t",".","o","r","g","/","l","i","j","i">>
    ELSE BaseUrl[t]

\* C28: with a relay configured a request goes to the relay endpoint with the
\* page URL and the key as its parameters, with no proxy on the session and no
\* Referer set; with no relay it goes to the page URL, through the selected
\* manual proxy if there is one, with the parent path of the page URL as Referer
C28_RelayOrProxyPerRequest ==
    pc = "request" =>
        IF g_scraping_service # None
        THEN /\ Request.url = RelayEndpoint[Get(g_scraping_service)]
             /\ Cardinality(Request.params) = 2
             /\ { p[2] : p \in Request.params } = {Target, Some(g_api_key)}
             /\ Request.proxies = None
             /\ Request.referer = None
        ELSE /\ Request.url = Target
             /\ Request.params = {}
             /\ Request.proxies = SelectedProxy
             /\ Request.referer = Some(ParentOf(text_id, Head(chapters_to_scrape)))

C28_Witness ==
    /\ pc = "request"
    /\ g_scraping_service = None
    /\ Request.proxies = Some(ProxyAddress)
    /\ text_id = "analects"
    /\ Head(chapters_to_scrape)[1] = 2
    /\ attempt = 1
    /\ resets = 1

C28_WitnessRelay ==
    /\ pc = "request"
    /\ g_scraping_service = Some("zenrows")
    /\ g_use_proxy /\ g_proxy_list # <<>>
    /\ text_id = "daxue"
    /\ attempt = 1

\* --proxy host:port is on the command line with its argument, and neither a
\* relay flag nor --no-proxy is
ProxyOnly(args) ==
    /\ InArgs(args, "--proxy")
    /\ IndexOf(args, "--proxy") + 1 <= Len(args)
    /\ args[IndexOf(args, "--proxy") + 1] = ProxyAddress
    /\ \A k \in 1..Len(ServiceFlags) : ~InArgs(args, ServiceFlags[k].flag)
    /\ ~InArgs(args, "--no-proxy")

\* C29: in a run started with --proxy host:port and no relay flag, every
\* request goes through that proxy and none goes to a relay endpoint
C29_ManualProxyInEffect ==
    (ProxyOnly(argv) /\ pc = "request") =>
        /\ session.proxies = Some(ProxyAddress)
        /\ Request.proxies = session.proxies
        /\ Request.url = Target

\* the document has a first chapter with passages
HasFirstChapterWithPassages(f) ==
    /\ IsDoc(f)
    /\ ChaptersOf(f) # <<>>
    /\ ChaptersOf(f)[1].passages # <<>>

\* the refs "1", "2", ..., "k" of the passages of a chapter
RefsCountFromOne(chapter) ==
    \A j \in 1..Len(chapter.passages) : chapter.passages[j].ref = Str(j)

\* a pass over a single-page work is under way
InSinglePagePass == pc \in {"loop", "request"} /\ IsSinglePage(info)

C32_DocumentCreatedOnFirstSuccess ==
    [][\A t \in TextIds :
          (disk[t] = NoFile /\ IsDoc(disk'[t]) /\ pc' = "work")
              => ChaptersOf(disk'[t]) # <<>>]_vars

\* a pass over the first selected work ends, by the save or by the skip
PassCompletes ==
    /\ texts_to_scrape # <<>>
    /\ texts_to_scrape' = Tail(texts_to_scrape)
    /\ pc' = "work"

\* C33: chapters that an interrupted run left out of numeric order are in
\* ascending numeric order once the next pass over the work has completed
C33_NextRunResorts ==
    [][(/\ PassCompletes
        /\ ~IsSinglePage(info)
        /\ IsDoc(disk[text_id])
        /\ ~SortedAscending(ChaptersOf(disk[text_id])))
          => /\ IsDoc(disk'[text_id])
             /\ SortedAscending(ChaptersOf(disk'[text_id]))]_vars

\* what the code keeps: the pass re-sorts when it has a page to fetch
C33_ResortsWhenPageMissing ==
    [][(/\ PassCompletes
        /\ pc = "loop"
        /\ ~IsSinglePage(info))
          => /\ IsDoc(disk'[text_id])
             /\ SortedAscending(ChaptersOf(disk'[text_id]))]_vars

\* the entries of chapters_to_scrape for the work t and its file f
MissingPages(t, f) ==
    IF IsSinglePage(TEXTS[t]) THEN <<None>>
    ELSE MissingFrom(TEXTS[t].chapters, 1, ExistingSlugs(LoadExisting(f)))

\* the ways in which a process ends
EndReasons == {"done", "interrupt", "io_error", "unknown_texts", "usage"}

\* C34: no outcome of a fetch ends the run: a pass over a work ends, short of
\* an interrupt and a failed save, with a fetch call made for each of its
\* missing pages and with the document saved; a work is passed over only when
\* it misses no page; the works are taken one by one until none is left; and
\* the run terminates
C34_FetchOutcomeNeverStopsRun ==
    /\ [](pc = "exited" => ended \in EndReasons)
    /\ [][(pc = "loop" /\ pc' # "exited" /\ texts_to_scrape' # texts_to_scrape)
            => /\ PassCompletes
               /\ Len(passLog) = Len(MissingPages(text_id, disk[text_id]))
               /\ \A k \in 1..Len(passLog) :
                     passLog[k] = <<text_id, MissingPages(text_id, disk[text_id])[k]>>
               /\ IsDoc(disk'[text_id])]_vars
    /\ [][(pc = "work" /\ pc' = "work") => (PassCompletes /\ AllPresent(text_id))]_vars
    /\ [][(pc = "work" /\ pc' = "exited")
            => (texts_to_scrape = <<>> /\ ended' = "done")]_vars
    /\ [][(pc \in {"loop", "request"} /\ pc' = "exited")
            => ended' \in {"interrupt", "io_error"}]_vars
    /\ [][(pc = "request" /\ pc' = "loop" /\ response'.status # "200")
            => /\ chapters_to_scrape' = Tail(chapters_to_scrape)
               /\ UNCHANGED <<texts_to_scrape, output, disk>>]_vars
    /\ <>(pc = "exited")

\* a run ended after both works: a page of the first was not found, another
\* failed on every attempt, and the one page of the second was fetched
C34_Witness ==
    /\ pc = "exited"
    /\ ended = "done"
    /\ Len(fetchLog) = 3
    /\ fetchLog[3][1] = "daxue"
    /\ IsDoc(disk["analects"]) /\ ChaptersOf(disk["analects"]) = <<>>
    /\ IsDoc(disk["daxue"]) /\ Len(ChaptersOf(disk["daxue"])) = 1

(* --------------------- the splitters on their own ---------------------- *)
\* source texts of up to MaxText characters: an ideograph, two terminals, a
\* closing quote and the space
SourceChars == {"U+7532", ZhStop, ZhQuestion, ZhCloseQuote, Space}
SourceTexts == UNION { [1..n -> SourceChars] : n \in 0..MaxText }

\* chapter files of one coarse passage with a source text and no target text
SourceFiles == { << [zh |-> text, en |-> <<>>] >> : text \in SourceTexts }

\* process_chapter on a chapter file of one passage
SplitNext ==
    \/ \E file \in SourceFiles, n \in ChapterNums : ProcessChapter(file, n)
    \/ ProcessPassage
    \/ \E io \in IoOutcomes : WriteChapter(io)

SplitSpec == Init /\ [][SplitNext]_vars

\* position j of text closes a sentence: a terminal, or a closing quote of
\* the run of closing quotes behind a terminal, with no closing quote after it
ClosesSentence(text, j) ==
    /\ \E i \in 1..j :
          /\ text[i] \in ZhTerminals
          /\ \A m \in (i + 1)..j : text[m] \in ClosingQuotes
    /\ j = Len(text) \/ text[j + 1] \notin ClosingQuotes

Closes(text) == { j \in 1..Len(text) : ClosesSentence(text, j) }

\* the k-th smallest member of a set of numbers
Nth(S, k) == CHOOSE x \in S : Cardinality({ y \in S : y <= x }) = k

\* the text cut behind every closing position, trimmed: the closed spans and
\* the text that trails them
Spans(text) ==
    LET n == Cardinality(Closes(text))
        from(k) == IF k = 1 THEN 1 ELSE Nth(Closes(text), k - 1) + 1
        to(k) == IF k = n + 1 THEN Len(text) ELSE Nth(Closes(text), k)
    IN  [k \in 1..(n + 1) |-> Strip(SubSeq(text, from(k), to(k)))]

TerminalsIn(sentence) == { j \in 1..Len(sentence) : sentence[j] \in ZhTerminals }

\* one terminal, with nothing but closing quotes behind it
ClosedSentence(sentence) ==
    /\ Cardinality(TerminalsIn(sentence)) = 1
    /\ \A j \in 1..Len(sentence) :
          (\E i \in TerminalsIn(sentence) : i < j) => sentence[j] \in ClosingQuotes

\* the step in which process_chapter splits the passage at the head of its list
SplitsPassage == apc = "loop" /\ orig_passages # <<>> /\ orig_passages' = Tail(orig_passages)

\* C35: split_chinese_sentences closes a sentence at each terminal together
\* with the closing quotes right behind it: the sentences are the non-empty
\* trimmed spans, none is empty, each but possibly the last is one terminal
\* followed by closing quotes only, and text that trails the last terminal is
\* the last sentence when it is not blank
C35_SplitsAtTerminals ==
    [][SplitsPassage =>
         LET text == Head(orig_passages).zh
             spans == Spans(text)
             out == zh_sentences'
         IN  /\ out = SelectSeq(spans, LAMBDA span : span # <<>>)
             /\ \A k \in 1..Len(out) : out[k] # <<>> /\ Strip(out[k]) = out[k]
             /\ \A k \in 1..(Len(out) - 1) : ClosedSentence(out[k])
             /\ out # <<>> =>
                   (ClosedSentence(out[Len(out)]) \/ TerminalsIn(out[Len(out)]) = {})
             /\ spans[Len(spans)] # <<>> => out[Len(out)] = spans[Len(spans)]]_vars

\* a text of two closed sentences, the first with a closing quote, was split
C35_Witness ==
    /\ apc = "loop"
    /\ orig_passages = <<>>
    /\ zh_sentences = << <<ZhQuestion, ZhCloseQuote>>, <<"U+7532", ZhStop>> >>

\* ' '.join(text.split()): runs of spaces become one space, none at the ends
RECURSIVE SqueezeFrom(_, _)
SqueezeFrom(text, j) ==
    IF j > Len(text) THEN <<>>
    ELSE (IF text[j] = Space /\ j > 1 /\ text[j - 1] = Space THEN <<>> ELSE <<text[j]>>)
         \o SqueezeFrom(text, j + 1)

NormalizeSpace(text) == Strip(SqueezeFrom(text, 1))

\* C36: split_english_sentences returns, for a target text, fragments that
\* joined by single spaces are the whitespace-normalized text
C36_FragmentsRejoinToText ==
    [][(apc = "loop" /\ orig_passages # <<>> /\ Strip(Head(orig_passages).en) # <<>>)
          => /\ apc' = "loop"
             /\ Join(<<Space>>, en_sentences') = NormalizeSpace(Head(orig_passages).en)]_vars

\* the texts of one side of the passages, in order
ZhOf(ps) == [i \in 1..Len(ps) |-> ps[i].zh]
EnOf(ps) == [i \in 1..Len(ps) |-> ps[i].en]

\* C37: a call of align_passages loses and duplicates no text: the source
\* texts of its passages concatenated are the source sentences concatenated,
\* and its non-empty target texts joined by single spaces are the target
\* sentences joined by single spaces, whatever the two counts are
C37_AlignLosesNoText ==
    [][Called
        => /\ Join(<<>>, ZhOf(new_passages')) = Join(<<>>, zh_sentences')
           /\ Join(<<Space>>, SelectSeq(EnOf(new_passages'), LAMBDA en : en # <<>>))
                 = Join(<<Space>>, en_sentences')]_vars

\* three source sentences were aligned with two target sentences, and two
\* source sentences with three target sentences before that
C37_Witness ==
    /\ nCalls = 2
    /\ Len(zh_sentences) = 3 /\ Len(en_sentences) = 2
    /\ Len(new_passages) = 2
    /\ Len(all_passages) = 4
    /\ all_passages[2].en = EnSentenceStock[2] \o <<Space>> \o EnSentenceStock[3]
    /\ new_passages[2].zh = ZhSentenceStock[2] \o ZhSentenceStock[3]

(* ------------------- the suspect test on its own ------------------- *)
MaxIdeographs == 4
MaxLetters == 10
MaxMargin == 2

\* the text made of n copies of the character c
Copies(c, n) == [i \in 1..n |-> c]

\* characters on either side of the ends of the two ranges of the suspect test
RangeEnds == {"U+33FF", "U+3400", "U+4DBF", "U+4DC0", "U+4E00", "U+9FFF", "U+A000"}

\* target texts with some characters beyond ASCII in front of some letters
MixedTexts ==
    { Copies(c, k) \o Copies("a", n) :
        c \in RangeEnds, k \in 0..MaxIdeographs, n \in 0..MaxLetters }

\* target texts of letters between blanks
PaddedTexts ==
    { Copies(Space, l) \o Copies("a", n) \o Copies(Space, r) :
        l \in 0..MaxMargin, r \in 0..MaxMargin, n \in 0..MaxLetters }

\* a boilerplate phrase in lower case, capitalised and in upper case, and the
\* phrase without its last character, each between letters
PhraseTexts ==
    UNION { LET p == BAD_PATTERNS[k]
                upper == [j \in 1..Len(p) |-> Upper(p[j])]
                capital == <<Upper(p[1])>> \o Tail(p)
                cut == SubSeq(p, 1, Len(p) - 1)
            IN  { Copies("a", MaxLetters \div 2) \o q \o Copies("a", MaxLetters \div 2) :
                    q \in {p, upper, capital, cut} } :
            k \in 1..Len(BAD_PATTERNS) }

SuspectTexts == MixedTexts \cup PaddedTexts \cup PhraseTexts

\* documents of one chapter with one passage, handed to the auditor
SuspectDocs ==
    { [id |-> "analects",
       chapters |-> <<PageChapter(1, AnalectsChapters[1], PairsOf(<<en>>))>>] :
      en \in SuspectTexts }

SuspectInit ==
    /\ ParserInit
    /\ HistoryInit
    /\ ConfigInit
    /\ OfflineInit
    /\ disk \in { [analects |-> DocFile(d), daxue |-> NoFile] : d \in SuspectDocs }
    /\ pc = "idle"
    /\ runs = 0
    /\ texts_to_scrape = <<>>
    /\ output = NoOutput
    /\ chapters_to_scrape = <<>>
    /\ passages = <<>>
    /\ exit_code = -1
    /\ ended = ""
    /\ g_session = NoSession
    /\ session = NoSession
    /\ attempt = 0
    /\ response = NoResponse
    /\ nSessions = 0
    /\ resets = 0

SuspectSpec == SuspectInit /\ [][AuditNext]_vars

\* the length of the text without the blanks at its ends
TrimmedLength(en) ==
    LET inked == { i \in 1..Len(en) : en[i] # Space }
    IN  IF inked = {} THEN 0
        ELSE (CHOOSE i \in inked : \A j \in inked : j <= i)
             - (CHOOSE i \in inked : \A j \in inked : i <= j) + 1

\* a listed phrase stands in the text, whatever the case of the letters
HasBoilerplate(en) ==
    \E k \in 1..Len(BAD_PATTERNS) :
       \E i \in 0..(Len(en) - Len(BAD_PATTERNS[k])) :
          \A j \in 1..Len(BAD_PATTERNS[k]) : Lower(en[i + j]) = BAD_PATTERNS[k][j]

\* the character lies in U+4E00..U+9FFF or U+3400..U+4DBF
InSuspectRanges(c) ==
    /\ c \in DOMAIN CodePoint
    /\ \/ CodePoint[c] \in 19968..40959
       \/ CodePoint[c] \in 13312..19903

\* more than 30% of the characters of the text lie in the two ranges
MostlyInRanges(en) ==
    10 * Cardinality({ i \in 1..Len(en) : InSuspectRanges(en[i]) }) > 3 * Len(en)

\* at least one of the three conditions holds of the text
MeetsACondition(en) ==
    \/ en = <<>> \/ TrimmedLength(en) < MinTranslationLength
    \/ HasBoilerplate(en)
    \/ MostlyInRanges(en)

\* the passages of the chapters whose target text meets a condition
MeetingACondition(chapters) ==
    Sum([k \in 1..Len(chapters) |->
            Cardinality({ i \in 1..Len(chapters[k].passages) :
                            MeetsACondition(chapters[k].passages[i].en) })])

\* C38: is_bad_translation marks a target text suspect exactly when it is
\* empty or shorter than 10 characters once trimmed, or holds a listed
\* boilerplate phrase in any case, or has more than 30% of its characters in
\* U+4E00..U+9FFF and U+3400..U+4DBF: an audit counts as suspect the passages
\* whose target text meets one of the three, and no other
C38_SuspectExactlyOnThreeConditions ==
    [][Audited
        => results'.bad_passages = MeetingACondition(ChaptersOf(disk[results'.text_id]))]_vars

\* an audit found nothing suspect in a text of ten characters of which exactly
\* three are ideographs of the second range
C38_Witness ==
    /\ results.kind = "results"
    /\ results.total_passages = 1
    /\ results.bad_passages = 0
    /\ IsDoc(disk.analects)
    /\ ChaptersOf(disk.analects)[1].passages[1].en
          = Copies("U+3400", 3) \o Copies("a", 7)

(* ------------------- what the auditor writes ------------------- *)
\* the document in the file has a chapter that an audit flags
HasBadChapter(f) ==
    /\ IsDoc(f)
    /\ \E k \in 1..Len(ChaptersOf(f)) : BadChapter(ChaptersOf(f)[k])

\* C39: the auditor writes the document only in fix mode and only when at
\* least one chapter is flagged bad: a file changes only under a fix-mode
\* audit of a document with a flagged chapter; an audit without fix, and a
\* fix-mode audit that flags no chapter, leave every file as it was
C39_WritesOnlyInFixModeWithBadChapter ==
    [][/\ \A t \in TextIds :
            disk'[t] # disk[t] => fix_mode' /\ HasBadChapter(disk[t])
       /\ (Audited /\ (~fix_mode' \/ results'.bad_chapters = <<>>)) => disk' = disk]_vars

\* an audit without fix flagged a chapter and the document still holds it
C39_Witness ==
    /\ results.kind = "results"
    /\ ~fix_mode
    /\ ~results.fixed
    /\ results.bad_chapters # <<>>
    /\ HasBadChapter(disk[results.text_id])

\* the audit of this step is of the document that the last audit, made in fix
\* mode, handed back results for
AuditedRightAfterFix ==
    /\ results.kind = "results"
    /\ fix_mode
    /\ results'.kind # "none"
    /\ results'.text_id = results.text_id

\* C40: fix mode is idempotent: after a fix-mode audit the document holds no
\* chapter that an audit flags, and the audit of it that comes next, in fix
\* mode or not, hands back results without a bad chapter, removes nothing and
\* leaves the document as the first fix wrote it
C40_FixModeIdempotent ==
    /\ [](results.kind = "results" /\ fix_mode => ~HasBadChapter(disk[results.text_id]))
    /\ [][AuditedRightAfterFix
            => /\ results'.kind = "results"
               /\ results'.bad_chapters = <<>>
               /\ ~results'.fixed
               /\ results'.chapters_removed = 0
               /\ disk' = disk]_vars

\* a second audit in fix mode found nothing to remove in a document from
\* which a fix had removed the first chapter and kept a later one
C40_Witness ==
    /\ results.kind = "results"
    /\ fix_mode
    /\ results.bad_chapters = <<>>
    /\ ~results.fixed
    /\ IsDoc(disk.analects)
    /\ ChaptersOf(disk.analects) # <<>>
    /\ ChaptersOf(disk.analects)[1].number # <<"1">>
    /\ results.total_chapters = Len(ChaptersOf(disk.analects))

====
